---- MODULE Spec2Model ----
(***************************************************************************)
(* Model of the serverless analysis function of the financial chat         *)
(* analyzer (api/analyze.js, src/unnamed/part_000 lines 325-871) and of    *)
(* the conversation context the chat client keeps (src/public/app.js).     *)
(*                                                                         *)
(* Numbers.  Every number the recommendation engine compares is a decimal  *)
(* with two fraction digits (the signals are produced with toFixed(2) or   *)
(* Math.round(x * 100) / 100), so a number is held as the integer count of *)
(* its hundredths: 3% is 300, a P/E of 15 is 1500, a sentiment score of    *)
(* 0.5 is 50.  A JavaScript value is a record [t, v]: t is "numstr" for a  *)
(* numeric string such as "232.14", "num" for a number, "NaN" for the      *)
(* number NaN, "undefined" for a missing property, and the text itself for *)
(* the non-numeric strings "N/A" and "None"; v is the hundredths of a      *)
(* numeric value and 0 otherwise.                                          *)
(*                                                                         *)
(* The action field of a recommendation is modelled without its leading    *)
(* colour glyph ("Strong Buy" for the source's glyph + " Strong Buy").     *)
(*                                                                         *)
(* Specifications.  Spec runs generateRecommendation on the input grids;   *)
(* SpecChat keeps the previous answer as context; SpecNews applies         *)
(* getSentimentFromNews to article lists; SpecApi serves one POST of any   *)
(* body under any answer of the three providers; SpecClient is the chat    *)
(* client (extractSymbol, sendMessage) talking to the function.            *)
(* SpecSeries runs the time-series getTechnicalAnalysis (part_002) on      *)
(* daily series and scores its signal; SpecWire runs a provider page       *)
(* through getNewsAnalysis, getSentimentFromNews and the engine;           *)
(* SpecConversation is the chat client with overlapping sendMessage calls  *)
(* and its conversationHistory, which SpecClient, serving one call at a    *)
(* time, leaves untracked (the client writes it and never reads it);       *)
(* SpecSocket is the socket server (part_004) and SpecSocketFair adds weak *)
(* fairness of its promise continuations.                                  *)
(***************************************************************************)
EXTENDS Integers, Sequences, FiniteSets, TLC

VARIABLES
    technical,       \* argument of generateRecommendation: the TechnicalSignal
    fundamental,     \* argument of generateRecommendation: the FundamentalSignal
    sentiment,       \* argument of generateRecommendation: the SentimentSignal
    pc,              \* position inside generateRecommendation
    score,           \* local: let score
    reasons,         \* local: let reasons (the accumulated, untruncated list)
    riskFactors,     \* local: let riskFactors (accumulated, untruncated)
    recommendation,  \* local: BUY / HOLD / SELL
    action,          \* local: the five-valued action
    confidence,      \* local: High / Medium
    riskLevel,       \* local: Low / Medium / High
    result,          \* the object generateRecommendation returns
    lastAnalysis     \* conversationContext.lastAnalysis of the chat client

VARIABLES
    env,             \* process.env and what each provider answers
    newsData,        \* argument of getSentimentFromNews
    request,         \* req.body of the POST the handler is serving
    apiPc,           \* position inside handler / analyzeAsset
    fetches,         \* the three promises of Promise.all: state and value
    settled,         \* the fetchers in the order their promises settled
    response,        \* what the handler sent: status and body
    fetchCount,      \* provider requests issued for the request being served
    message,         \* messageInput.value of the chat client
    lastSymbol,      \* conversationContext.lastSymbol
    clientPc         \* position inside sendMessage

VARIABLES
    conversationHistory, \* conversationContext.conversationHistory
    calls,               \* the sendMessage calls awaiting their response
    handlers,            \* the analyze_asset handlers of the socket server
    emitted              \* what the socket server emitted, in order

\* the state of the overlapping chat client and of the socket server
conv == <<conversationHistory, calls, handlers, emitted>>

\* the state outside the recommendation engine
ext == <<env, newsData, request, apiPc, fetches, settled, response, fetchCount,
         message, lastSymbol, clientPc, conv>>

vars == <<technical, fundamental, sentiment, pc, score, reasons, riskFactors,
          recommendation, action, confidence, riskLevel, result, lastAnalysis,
          ext>>

locals == <<score, reasons, riskFactors, recommendation, action, confidence,
            riskLevel>>

inputs == <<technical, fundamental, sentiment>>

(***************************************************************************)
(* Bounds of the input grids.                                              *)
(***************************************************************************)
\* largest day change, in whole percent, on the changePercent grid
MaxChange == 3
\* largest distance, in whole currency units, between price and SMA20
MaxSpread == 2
\* the 20-day average of the grid, in whole currency units
SmaUnits == 100
\* longest article list handed to getSentimentFromNews
MaxArticles == 2

(***************************************************************************)
(* JavaScript values.                                                      *)
(***************************************************************************)
NumStr(n) == [t |-> "numstr", v |-> n]
Num(n) == [t |-> "num", v |-> n]
NaN == [t |-> "NaN", v |-> 0]
Undefined == [t |-> "undefined", v |-> 0]
NA == [t |-> "N/A", v |-> 0]
None == [t |-> "None", v |-> 0]
Null == [t |-> "null", v |-> 0]

\* parseFloat: the number a numeric string spells, NaN for anything else
parseFloat(x) == IF x.t \in {"numstr", "num"} THEN Num(x.v) ELSE NaN

\* a > n and a < n for a parsed value a and a literal n; false when a is NaN
Gt(a, n) == a.t = "num" /\ a.v > n
Lt(a, n) == a.t = "num" /\ a.v < n

\* a > b * (pct / 100) and a < b * (pct / 100); false when either is NaN.
\* The source multiplies by the doubles 1.02 and 0.98; for operands with two
\* decimals the rounded product compares with the price as the exact product
\* does, so the comparison is made on the exact hundredths.
GtTimes(a, b, pct) == a.t = "num" /\ b.t = "num" /\ a.v * 100 > b.v * pct
LtTimes(a, b, pct) == a.t = "num" /\ b.t = "num" /\ a.v * 100 < b.v * pct

\* Array.prototype.slice(0, n)
Slice(s, n) == SubSeq(s, 1, IF Len(s) < n THEN Len(s) ELSE n)

(***************************************************************************)
(* The signals generateRecommendation receives.                            *)
(***************************************************************************)
\* the fully-absent TechnicalSignal every failure path returns
TechnicalSentinel ==
    [price |-> NA, changePercent |-> Undefined,
     indicators |-> [sma20 |-> Undefined]]

\* the canned quote returned when the provider reports its rate limit
DemoTechnical ==
    [price |-> NumStr(23214), changePercent |-> NumStr(-18),
     indicators |-> [sma20 |-> NumStr(22576)]]

\* a TechnicalSignal derived from the daily series (the time-series variant
\* of getTechnicalAnalysis, whose generateRecommendation is the same code):
\* three toFixed(2) strings
TechnicalSignal(price, changePercent, sma20) ==
    [price |-> NumStr(price), changePercent |-> NumStr(changePercent),
     indicators |-> [sma20 |-> NumStr(sma20)]]

\* the FundamentalSignal of the failure paths
FundamentalSentinel == [peRatio |-> NA, dividendYield |-> NA]

\* data['PERatio'] || 'N/A' and data['DividendYield'] || 'N/A'
FundamentalSignal(peRatio, dividendYield) ==
    [peRatio |-> peRatio, dividendYield |-> dividendYield]

\* getSentimentFromNews for a list without articles
SentimentSentinel ==
    [score |-> 0,
     message |-> "No news articles available for sentiment analysis"]

\* the label getSentimentFromNews gives a mean that has two decimals
SentimentLabel(avgScore) ==
    IF avgScore > 50 THEN "Very Positive sentiment in recent news"
    ELSE IF avgScore > 0 THEN "Positive sentiment in recent news"
    ELSE IF avgScore = 0 THEN "Neutral sentiment in recent news"
    ELSE IF avgScore > -50 THEN "Negative sentiment in recent news"
    ELSE "Very Negative sentiment in recent news"

SentimentSignal(avgScore) ==
    [score |-> avgScore, message |-> SentimentLabel(avgScore)]

(***************************************************************************)
(* Input grids: every threshold of the engine with its two neighbours.     *)
(***************************************************************************)
ChangeValues ==
    {k * 100 : k \in -MaxChange..MaxChange} \cup {-301, -1, 1, 301}

SmaValue == SmaUnits * 100

\* SMA20 * 0.98 and SMA20 * 1.02, exact in hundredths
LowerBand == SmaUnits * 98
UpperBand == SmaUnits * 102

PriceValues ==
    {SmaValue + d * 100 : d \in -MaxSpread..MaxSpread}
        \cup {LowerBand - 1, LowerBand, LowerBand + 1,
              UpperBand - 1, UpperBand, UpperBand + 1}

TechnicalInputs ==
    {TechnicalSentinel, DemoTechnical}
        \cup {TechnicalSignal(p, c, SmaValue) : p \in PriceValues, c \in ChangeValues}

PeInputs ==
    {NA, None} \cup {NumStr(n) : n \in {-500, 0, 1499, 1500, 2499, 2500, 4000, 4001}}

DividendInputs == {NA, None} \cup {NumStr(n) : n \in {0, 300, 301}}

FundamentalInputs ==
    {FundamentalSignal(p, d) : p \in PeInputs, d \in DividendInputs}

SentimentInputs ==
    {SentimentSentinel}
        \cup {SentimentSignal(s) : s \in {-100, -51, -50, 0, 50, 51, 100}}

\* the smaller grids of a conversation: one input per scoring band
ChatTechnicalInputs ==
    {TechnicalSentinel, TechnicalSignal(UpperBand + 1, 301, SmaValue),
     TechnicalSignal(SmaValue, 1, SmaValue),
     TechnicalSignal(LowerBand - 1, -301, SmaValue)}

ChatFundamentalInputs ==
    {FundamentalSentinel, FundamentalSignal(NumStr(1499), NumStr(301)),
     FundamentalSignal(NumStr(4001), NA)}

ChatSentimentInputs ==
    {SentimentSentinel, SentimentSignal(51), SentimentSignal(-51)}

(***************************************************************************)
(* generateRecommendation, one step per rule.  Each rule is an operator    *)
(* giving the points it adds (d), the reasons it pushes (r) and the risk   *)
(* factors it pushes (k).                                                  *)
(***************************************************************************)
Nothing == [d |-> 0, r |-> <<>>, k |-> <<>>]

\* the momentum bands with the two negative tests in the other order
MomentumRuleSwapped(changePercent) ==
    IF Gt(changePercent, 300)
    THEN [d |-> 2, r |-> <<"Strong upward momentum (+3%)">>, k |-> <<>>]
    ELSE IF Gt(changePercent, 0)
    THEN [d |-> 1, r |-> <<"Positive price movement">>, k |-> <<>>]
    ELSE IF Lt(changePercent, 0)
    THEN [d |-> -1, r |-> <<"Negative price movement">>, k |-> <<>>]
    ELSE IF Lt(changePercent, -300)
    THEN [d |-> -2, r |-> <<"Significant price decline (-3%)">>,
          k |-> <<"Recent sharp decline">>]
    ELSE Nothing

\* price momentum, for the parsed changePercent
MomentumRule(changePercent) ==
    IF Gt(changePercent, 300)
    THEN [d |-> 2, r |-> <<"Strong upward momentum (+3%)">>, k |-> <<>>]
    ELSE IF Gt(changePercent, 0)
    THEN [d |-> 1, r |-> <<"Positive price movement">>, k |-> <<>>]
    ELSE IF Lt(changePercent, -300)
    THEN [d |-> -2, r |-> <<"Significant price decline (-3%)">>,
          k |-> <<"Recent sharp decline">>]
    ELSE IF Lt(changePercent, 0)
    THEN [d |-> -1, r |-> <<"Negative price movement">>, k |-> <<>>]
    ELSE Nothing

\* the trend rule without the 2% margin around the average
TrendRuleNoMargin(currentPrice, sma20) ==
    IF GtTimes(currentPrice, sma20, 100)
    THEN [d |-> 1, r |-> <<"Price above 20-day average">>, k |-> <<>>]
    ELSE IF LtTimes(currentPrice, sma20, 100)
    THEN [d |-> -1, r |-> <<"Price below 20-day average">>,
          k |-> <<"Below short-term trend">>]
    ELSE Nothing

\* trend analysis, for the parsed price and SMA20
TrendRule(currentPrice, sma20) ==
    IF GtTimes(currentPrice, sma20, 102)
    THEN [d |-> 1, r |-> <<"Price above 20-day average">>, k |-> <<>>]
    ELSE IF LtTimes(currentPrice, sma20, 98)
    THEN [d |-> -1, r |-> <<"Price below 20-day average">>,
          k |-> <<"Below short-term trend">>]
    ELSE Nothing

\* the valuation rule with inclusive upper ends of the two cheap bands
ValuationRuleInclusive(pe) ==
    IF Gt(pe, 0)
    THEN IF Lt(pe, 1501)
         THEN [d |-> 2, r |-> <<"Attractive P/E ratio (value play)">>, k |-> <<>>]
         ELSE IF Lt(pe, 2501)
         THEN [d |-> 1, r |-> <<"Reasonable P/E ratio">>, k |-> <<>>]
         ELSE IF Gt(pe, 4000)
         THEN [d |-> -1, r |-> <<"High P/E ratio (expensive)">>,
               k |-> <<"High valuation risk">>]
         ELSE Nothing
    ELSE Nothing

\* valuation, for the parsed P/E ratio
ValuationRule(pe) ==
    IF Gt(pe, 0)
    THEN IF Lt(pe, 1500)
         THEN [d |-> 2, r |-> <<"Attractive P/E ratio (value play)">>, k |-> <<>>]
         ELSE IF Lt(pe, 2500)
         THEN [d |-> 1, r |-> <<"Reasonable P/E ratio">>, k |-> <<>>]
         ELSE IF Gt(pe, 4000)
         THEN [d |-> -1, r |-> <<"High P/E ratio (expensive)">>,
               k |-> <<"High valuation risk">>]
         ELSE Nothing
    ELSE Nothing

\* the dividend rule with an inclusive threshold
DividendRuleInclusive(divYield) ==
    IF Gt(divYield, 299)
    THEN [d |-> 1, r |-> <<"Good dividend yield">>, k |-> <<>>]
    ELSE Nothing

\* dividend yield, for the parsed yield
DividendRule(divYield) ==
    IF Gt(divYield, 300)
    THEN [d |-> 1, r |-> <<"Good dividend yield">>, k |-> <<>>]
    ELSE Nothing

\* the sentiment rule with inclusive thresholds
SentimentRuleInclusive(sentimentScore) ==
    IF sentimentScore >= 50
    THEN [d |-> 1, r |-> <<"Positive market sentiment">>, k |-> <<>>]
    ELSE IF sentimentScore <= -50
    THEN [d |-> -1, r |-> <<"Negative market sentiment">>,
          k |-> <<"Poor news sentiment">>]
    ELSE Nothing

\* sentiment, for the numeric sentiment.score
SentimentRule(sentimentScore) ==
    IF sentimentScore > 50
    THEN [d |-> 1, r |-> <<"Positive market sentiment">>, k |-> <<>>]
    ELSE IF sentimentScore < -50
    THEN [d |-> -1, r |-> <<"Negative market sentiment">>,
          k |-> <<"Poor news sentiment">>]
    ELSE Nothing

\* the guarded technical block: skipped for the sentinel price
TechnicalMomentum(tech) ==
    IF tech.price # NA
    THEN MomentumRule(parseFloat(tech.changePercent))
    ELSE Nothing

\* the trend block with a penalty substituted for a missing signal
TechnicalTrendDefaulted(tech) ==
    IF tech.price # NA
    THEN TrendRule(parseFloat(tech.price), parseFloat(tech.indicators.sma20))
    ELSE [d |-> -1, r |-> <<>>, k |-> <<"Below short-term trend">>]

TechnicalTrend(tech) ==
    IF tech.price # NA
    THEN TrendRule(parseFloat(tech.price), parseFloat(tech.indicators.sma20))
    ELSE Nothing

\* the guarded valuation block
FundamentalValuation(fund) ==
    IF fund.peRatio # NA
    THEN ValuationRule(parseFloat(fund.peRatio))
    ELSE Nothing

\* the guarded dividend block
FundamentalDividend(fund) ==
    IF fund.dividendYield # NA
    THEN DividendRule(parseFloat(fund.dividendYield))
    ELSE Nothing

\* the accumulation with the penalties left out of the score
ApplyWithoutPenalty(c) ==
    /\ score' = score + (IF c.d < 0 THEN 0 ELSE c.d)
    /\ reasons' = reasons \o c.r
    /\ riskFactors' = riskFactors \o c.k

\* score += d; reasons.push(...r); riskFactors.push(...k)
Apply(c) ==
    /\ score' = score + c.d
    /\ reasons' = reasons \o c.r
    /\ riskFactors' = riskFactors \o c.k

\* the score thresholds with exclusive lower ends
ClassifyScoreExclusive(total) ==
    IF total > 3
    THEN [recommendation |-> "BUY", action |-> "Strong Buy", confidence |-> "High"]
    ELSE IF total > 1
    THEN [recommendation |-> "BUY", action |-> "Buy", confidence |-> "Medium"]
    ELSE IF total > -1
    THEN [recommendation |-> "HOLD", action |-> "Hold", confidence |-> "Medium"]
    ELSE IF total > -3
    THEN [recommendation |-> "SELL", action |-> "Sell", confidence |-> "Medium"]
    ELSE [recommendation |-> "SELL", action |-> "Strong Sell", confidence |-> "High"]

\* score thresholds: recommendation class, action and confidence
ClassifyScore(total) ==
    IF total >= 3
    THEN [recommendation |-> "BUY", action |-> "Strong Buy", confidence |-> "High"]
    ELSE IF total >= 1
    THEN [recommendation |-> "BUY", action |-> "Buy", confidence |-> "Medium"]
    ELSE IF total >= -1
    THEN [recommendation |-> "HOLD", action |-> "Hold", confidence |-> "Medium"]
    ELSE IF total >= -3
    THEN [recommendation |-> "SELL", action |-> "Sell", confidence |-> "Medium"]
    ELSE [recommendation |-> "SELL", action |-> "Strong Sell", confidence |-> "High"]

\* the risk assessment with an exclusive High threshold
RiskAssessmentExclusive(length) ==
    IF length > 3 THEN "High"
    ELSE IF length >= 1 THEN "Medium"
    ELSE "Low"

\* risk assessment from riskFactors.length
RiskAssessment(length) ==
    IF length >= 3 THEN "High"
    ELSE IF length >= 1 THEN "Medium"
    ELSE "Low"

\* the message with the sell branch testing the buy branch's risk level
generateRecommendationMessageLowSell(rec, conf, risk) ==
    IF rec = "BUY"
    THEN (conf \o " confidence buy recommendation. ") \o
         (IF risk = "Low"
          THEN "Low risk investment with good upside potential."
          ELSE IF risk = "Medium"
          THEN "Moderate risk - consider position sizing carefully."
          ELSE "Higher risk - suitable for aggressive investors only.")
    ELSE IF rec = "HOLD"
    THEN "Hold current position. " \o
         "Mixed signals suggest waiting for clearer direction."
    ELSE (conf \o " confidence sell recommendation. ") \o
         (IF risk = "Low"
          THEN "Consider taking profits or reducing exposure."
          ELSE "High risk of further decline - consider exit strategy.")

generateRecommendationMessage(rec, conf, risk) ==
    IF rec = "BUY"
    THEN (conf \o " confidence buy recommendation. ") \o
         (IF risk = "Low"
          THEN "Low risk investment with good upside potential."
          ELSE IF risk = "Medium"
          THEN "Moderate risk - consider position sizing carefully."
          ELSE "Higher risk - suitable for aggressive investors only.")
    ELSE IF rec = "HOLD"
    THEN "Hold current position. " \o
         "Mixed signals suggest waiting for clearer direction."
    ELSE (conf \o " confidence sell recommendation. ") \o
         (IF risk = "High"
          THEN "High risk of further decline - consider exit strategy."
          ELSE "Consider taking profits or reducing exposure.")

\* the returned object with the two slice limits exchanged
RecommendationSwappedLimits ==
    [recommendation |-> recommendation,
     action |-> action,
     confidence |-> confidence,
     score |-> score,
     riskLevel |-> riskLevel,
     reasons |-> Slice(reasons, 3),
     riskFactors |-> Slice(riskFactors, 4),
     message |-> generateRecommendationMessage(recommendation, confidence, riskLevel)]

\* the object literal generateRecommendation returns
Recommendation ==
    [recommendation |-> recommendation,
     action |-> action,
     confidence |-> confidence,
     score |-> score,
     riskLevel |-> riskLevel,
     reasons |-> Slice(reasons, 4),
     riskFactors |-> Slice(riskFactors, 3),
     message |-> generateRecommendationMessage(recommendation, confidence, riskLevel)]

(***************************************************************************)
(* The state outside the engine before any request.                        *)
(***************************************************************************)
NoFetches ==
    [f \in {"technical", "fundamental", "news"} |->
        [state |-> "idle", value |-> Null]]

\* no credential configured
NoProviders ==
    [technical |-> [kind |-> "noKey"],
     fundamental |-> [kind |-> "noKey",
                      data |-> [PERatio |-> Undefined, DividendYield |-> Undefined]],
     news |-> [kind |-> "noKey", data |-> <<>>]]

\* no message sent by the overlapping client, no socket event received
ConvIdle ==
    /\ conversationHistory = <<>>
    /\ calls = <<>>
    /\ handlers = <<>>
    /\ emitted = <<>>

ExtIdle ==
    /\ ConvIdle
    /\ env = NoProviders
    /\ newsData = [articles |-> <<>>]
    /\ request = Null
    /\ apiPc = "idle"
    /\ fetches = NoFetches
    /\ settled = <<>>
    /\ response = Null
    /\ fetchCount = 0
    /\ message = ""
    /\ lastSymbol = Null
    /\ clientPc = "idle"

(***************************************************************************)
(* Steps of generateRecommendation.                                        *)
(***************************************************************************)
\* let score = 0; let reasons = []; let riskFactors = []; the later locals
\* are declared without a value
EnterRecommendation ==
    /\ score' = 0
    /\ reasons' = <<>>
    /\ riskFactors' = <<>>
    /\ recommendation' = "undefined"
    /\ action' = "undefined"
    /\ confidence' = "undefined"
    /\ riskLevel' = "undefined"
    /\ result' = Null
    /\ pc' = "momentum"

\* reading technical.indicators.sma20 throws when indicators is missing
ScoreMomentum ==
    /\ pc = "momentum"
    /\ IF technical.price # NA /\ technical.indicators = Undefined
       THEN /\ pc' = "threw"
            /\ UNCHANGED <<score, reasons, riskFactors>>
       ELSE /\ Apply(TechnicalMomentum(technical))
            /\ pc' = "trend"
    /\ UNCHANGED <<inputs, recommendation, action, confidence, riskLevel,
                   result, lastAnalysis, ext>>

ScoreTrend ==
    /\ pc = "trend"
    /\ Apply(TechnicalTrend(technical))
    /\ pc' = "valuation"
    /\ UNCHANGED <<inputs, recommendation, action, confidence, riskLevel,
                   result, lastAnalysis, ext>>

ScoreValuation ==
    /\ pc = "valuation"
    /\ Apply(FundamentalValuation(fundamental))
    /\ pc' = "dividend"
    /\ UNCHANGED <<inputs, recommendation, action, confidence, riskLevel,
                   result, lastAnalysis, ext>>

ScoreDividend ==
    /\ pc = "dividend"
    /\ Apply(FundamentalDividend(fundamental))
    /\ pc' = "sentiment"
    /\ UNCHANGED <<inputs, recommendation, action, confidence, riskLevel,
                   result, lastAnalysis, ext>>

ScoreSentiment ==
    /\ pc = "sentiment"
    /\ Apply(SentimentRule(sentiment.score))
    /\ pc' = "classify"
    /\ UNCHANGED <<inputs, recommendation, action, confidence, riskLevel,
                   result, lastAnalysis, ext>>

Classify ==
    /\ pc = "classify"
    /\ LET c == ClassifyScore(score)
       IN  /\ recommendation' = c.recommendation
           /\ action' = c.action
           /\ confidence' = c.confidence
    /\ pc' = "risk"
    /\ UNCHANGED <<inputs, score, reasons, riskFactors, riskLevel, result,
                   lastAnalysis, ext>>

AssessRisk ==
    /\ pc = "risk"
    /\ riskLevel' = RiskAssessment(Len(riskFactors))
    /\ pc' = "return"
    /\ UNCHANGED <<inputs, score, reasons, riskFactors, recommendation, action,
                   confidence, result, lastAnalysis, ext>>

ReturnRecommendation ==
    /\ pc = "return"
    /\ result' = Recommendation
    /\ pc' = "done"
    /\ UNCHANGED <<inputs, locals, lastAnalysis, ext>>

Engine ==
    \/ ScoreMomentum
    \/ ScoreTrend
    \/ ScoreValuation
    \/ ScoreDividend
    \/ ScoreSentiment
    \/ Classify
    \/ AssessRisk
    \/ ReturnRecommendation

(***************************************************************************)
(* The engine on its own: one call for each input of the grids.            *)
(***************************************************************************)
Init ==
    /\ technical \in TechnicalInputs
    /\ fundamental \in FundamentalInputs
    /\ sentiment \in SentimentInputs
    /\ score = 0
    /\ reasons = <<>>
    /\ riskFactors = <<>>
    /\ recommendation = "undefined"
    /\ action = "undefined"
    /\ confidence = "undefined"
    /\ riskLevel = "undefined"
    /\ result = Null
    /\ pc = "momentum"
    /\ lastAnalysis = Null
    /\ ExtIdle

Next == Engine

Spec == Init /\ [][Next]_vars

(***************************************************************************)
(* A conversation: the client keeps the last answer as context and asks    *)
(* for the fresh analysis of another symbol.                               *)
(***************************************************************************)
\* analyzeAsset, fresh branch: the three awaited signals are handed to
\* generateRecommendation
FreshAnalysis ==
    /\ pc = "idle"
    /\ technical' \in ChatTechnicalInputs
    /\ fundamental' \in ChatFundamentalInputs
    /\ sentiment' \in ChatSentimentInputs
    /\ EnterRecommendation
    /\ UNCHANGED <<lastAnalysis, ext>>

\* sendMessage after response.json(): conversationContext.lastAnalysis = data
UpdateContext ==
    /\ pc = "done"
    /\ lastAnalysis' = [technical |-> technical, fundamental |-> fundamental,
                        sentiment |-> sentiment, recommendation |-> result]
    /\ pc' = "idle"
    /\ UNCHANGED <<inputs, locals, result, ext>>

InitChat ==
    /\ technical = TechnicalSentinel
    /\ fundamental = FundamentalSentinel
    /\ sentiment = SentimentSentinel
    /\ score = 0
    /\ reasons = <<>>
    /\ riskFactors = <<>>
    /\ recommendation = "undefined"
    /\ action = "undefined"
    /\ confidence = "undefined"
    /\ riskLevel = "undefined"
    /\ result = Null
    /\ pc = "idle"
    /\ lastAnalysis = Null
    /\ ExtIdle

NextChat ==
    \/ FreshAnalysis
    \/ Engine
    \/ UpdateContext

SpecChat == InitChat /\ [][NextChat]_vars

(***************************************************************************)
(* Properties of the recommendation engine.                                *)
(***************************************************************************)
Classified == pc \in {"risk", "return", "done"}

\* C1: the total score fixes action and confidence: s >= 3 Strong Buy/High,
\* 1 <= s < 3 Buy/Medium, -1 <= s < 1 Hold/Medium, -3 <= s < -1 Sell/Medium,
\* s < -3 Strong Sell/High; the returned object carries the same values.
C1_ScoreThresholds ==
    /\ Classified =>
        /\ score >= 3 => action = "Strong Buy" /\ confidence = "High"
        /\ (1 <= score /\ score < 3) => action = "Buy" /\ confidence = "Medium"
        /\ (-1 <= score /\ score < 1) => action = "Hold" /\ confidence = "Medium"
        /\ (-3 <= score /\ score < -1) => action = "Sell" /\ confidence = "Medium"
        /\ score < -3 => action = "Strong Sell" /\ confidence = "High"
    /\ pc = "done" =>
        /\ result.score = score
        /\ result.action = action
        /\ result.confidence = confidence

\* a call whose total is exactly -3 is answered Sell
C1_Witness ==
    /\ pc = "done"
    /\ result.score = -3
    /\ result.action = "Sell"

\* C2: for an available technical signal the momentum step adds +2 above 3%,
\* +1 in (0, 3], -1 in [-3, 0), -2 below -3% and nothing at 0, and pushes
\* exactly one reason when a band fires and none otherwise.
C2_MomentumBands ==
    [][(pc = "momentum" /\ technical.price # NA) =>
        LET cp == technical.changePercent.v
            points == IF cp > 300 THEN 2
                      ELSE IF 0 < cp /\ cp <= 300 THEN 1
                      ELSE IF -300 <= cp /\ cp < 0 THEN -1
                      ELSE IF cp < -300 THEN -2
                      ELSE 0
        IN  /\ score' = score + points
            /\ Len(reasons') = Len(reasons) + (IF cp = 0 THEN 0 ELSE 1)
            /\ SubSeq(reasons', 1, Len(reasons)) = reasons]_vars

\* the momentum step has run on a change of exactly -3%
C2_Witness ==
    /\ pc = "trend"
    /\ technical.changePercent = NumStr(-300)
    /\ score = -1
    /\ reasons = <<"Negative price movement">>

\* C3: for an available technical signal the trend step adds +1 when
\* price > 1.02 * SMA20, -1 when price < 0.98 * SMA20, and between the two
\* (ends included) changes neither score, reasons nor risk factors.
C3_TrendBands ==
    [][(pc = "trend" /\ technical.price # NA) =>
        LET p == technical.price.v
            sma == technical.indicators.sma20.v
        IN  /\ p * 100 > sma * 102 => score' = score + 1
            /\ p * 100 < sma * 98 => score' = score - 1
            /\ (sma * 98 <= p * 100 /\ p * 100 <= sma * 102) =>
                   UNCHANGED <<score, reasons, riskFactors>>]_vars

\* the trend step has run on a price of exactly 1.02 * SMA20
C3_Witness ==
    /\ pc = "valuation"
    /\ technical.price = NumStr(UpperBand)
    /\ technical.indicators.sma20 = NumStr(SmaValue)
    /\ technical.changePercent = NumStr(0)
    /\ score = 0
    /\ reasons = <<>>

\* C4: for a numeric P/E the valuation step adds +2 when 0 < P/E < 15, +1
\* when 15 <= P/E < 25, -1 when P/E > 40, and changes nothing for
\* 25 <= P/E <= 40 and for P/E <= 0.
C4_ValuationBands ==
    [][(pc = "valuation" /\ fundamental.peRatio.t = "numstr") =>
        LET pe == fundamental.peRatio.v
        IN  /\ (0 < pe /\ pe < 1500) => score' = score + 2
            /\ (1500 <= pe /\ pe < 2500) => score' = score + 1
            /\ pe > 4000 => score' = score - 1
            /\ ((2500 <= pe /\ pe <= 4000) \/ pe <= 0) =>
                   UNCHANGED <<score, reasons, riskFactors>>]_vars

\* the valuation step has run on a P/E of exactly 15
C4_Witness ==
    /\ pc = "dividend"
    /\ fundamental.peRatio = NumStr(1500)
    /\ technical = TechnicalSentinel
    /\ score = 1
    /\ reasons = <<"Reasonable P/E ratio">>

\* C5: the dividend step adds +1 and one reason exactly when the yield is
\* available and greater than 3; otherwise it changes nothing; it never
\* lowers the score and never adds a risk factor.
C5_DividendRule ==
    [][pc = "dividend" =>
        LET dy == fundamental.dividendYield
            above == dy.t = "numstr" /\ dy.v > 300
        IN  /\ above => /\ score' = score + 1
                        /\ reasons' = Append(reasons, "Good dividend yield")
            /\ ~above => UNCHANGED <<score, reasons>>
            /\ score' >= score
            /\ riskFactors' = riskFactors]_vars

\* the dividend step has run on a yield of exactly 3
C5_Witness ==
    /\ pc = "sentiment"
    /\ fundamental = FundamentalSignal(NA, NumStr(300))
    /\ technical = TechnicalSentinel
    /\ score = 0
    /\ reasons = <<>>

\* C6: the sentiment step adds +1 when the score is above 0.5, -1 and the
\* risk factor 'Poor news sentiment' when it is below -0.5, and changes
\* nothing for -0.5 <= score <= 0.5.
C6_SentimentRule ==
    [][pc = "sentiment" =>
        LET sc == sentiment.score
        IN  /\ sc > 50 => /\ score' = score + 1
                          /\ riskFactors' = riskFactors
            /\ sc < -50 => /\ score' = score - 1
                           /\ riskFactors' = Append(riskFactors, "Poor news sentiment")
            /\ (-50 <= sc /\ sc <= 50) =>
                   UNCHANGED <<score, reasons, riskFactors>>]_vars

\* the sentiment step has run on a score of exactly -0.5
C6_Witness ==
    /\ pc = "classify"
    /\ sentiment.score = -50
    /\ technical = TechnicalSentinel
    /\ fundamental = FundamentalSentinel
    /\ score = 0
    /\ riskFactors = <<>>

\* C7: the risk level depends on the number of accumulated risk factors
\* only: none is Low, one or two is Medium, three or more is High.
C7_RiskLevelByCount ==
    /\ pc \in {"return", "done"} =>
        LET n == Len(riskFactors)
        IN  /\ n = 0 => riskLevel = "Low"
            /\ n \in {1, 2} => riskLevel = "Medium"
            /\ n >= 3 => riskLevel = "High"
    /\ pc = "done" => result.riskLevel = riskLevel

\* exactly three risk factors were accumulated
C7_Witness ==
    /\ pc = "done"
    /\ Len(riskFactors) = 3
    /\ result.riskLevel = "High"

\* the rule that pushes a reason or a risk factor
RuleOf(text) ==
    IF text \in {"Strong upward momentum (+3%)", "Positive price movement",
                 "Significant price decline (-3%)", "Negative price movement",
                 "Recent sharp decline"}
    THEN 1
    ELSE IF text \in {"Price above 20-day average", "Price below 20-day average",
                      "Below short-term trend"}
    THEN 2
    ELSE IF text \in {"Attractive P/E ratio (value play)", "Reasonable P/E ratio",
                      "High P/E ratio (expensive)", "High valuation risk"}
    THEN 3
    ELSE IF text = "Good dividend yield"
    THEN 4
    ELSE 5

InRuleOrder(list) ==
    \A i, j \in 1..Len(list) : i < j => RuleOf(list[i]) < RuleOf(list[j])

IsPrefix(short, limit, long) ==
    /\ Len(short) = (IF Len(long) < limit THEN Len(long) ELSE limit)
    /\ \A i \in 1..Len(short) : short[i] = long[i]

\* C8: the returned reasons are the first (at most 4) accumulated reasons and
\* the returned risk factors the first (at most 3) accumulated risk factors,
\* both accumulated in the order momentum, trend, P/E, dividend, sentiment.
C8_TruncatedPrefixes ==
    pc = "done" =>
        /\ Len(result.reasons) <= 4
        /\ Len(result.riskFactors) <= 3
        /\ IsPrefix(result.reasons, 4, reasons)
        /\ IsPrefix(result.riskFactors, 3, riskFactors)
        /\ InRuleOrder(reasons)
        /\ InRuleOrder(riskFactors)

\* all five rules pushed a reason and all four risk factors were pushed
C8_Witness ==
    /\ pc = "done"
    /\ Len(reasons) = 5
    /\ Len(riskFactors) = 4
    /\ Len(result.reasons) = 4
    /\ Len(result.riskFactors) = 3

Sum3(a, b, c) ==
    [d |-> a.d + b.d + c.d, r |-> a.r \o b.r \o c.r, k |-> a.k \o b.k \o c.k]

Accumulated == [d |-> score, r |-> reasons, k |-> riskFactors]

ValidRecommendation(rec) ==
    /\ rec.action \in {"Strong Buy", "Buy", "Hold", "Sell", "Strong Sell"}
    /\ rec.recommendation \in {"BUY", "HOLD", "SELL"}
    /\ rec.confidence \in {"High", "Medium"}
    /\ rec.riskLevel \in {"Low", "Medium", "High"}
    /\ rec.score \in -5..7

\* C9: a call with a missing signal does not throw and returns a valid
\* recommendation whose score, reasons and risk factors are those of the
\* rules of the other signals: nothing is contributed for the missing one.
C9_MissingSignalSkipped ==
    /\ pc # "threw"
    /\ pc = "done" =>
        LET m == TechnicalMomentum(technical)
            t == TechnicalTrend(technical)
            v == FundamentalValuation(fundamental)
            y == FundamentalDividend(fundamental)
            n == SentimentRule(sentiment.score)
        IN  /\ ValidRecommendation(result)
            /\ technical.price = NA => Accumulated = Sum3(v, y, n)
            /\ fundamental.peRatio = NA =>
                   Accumulated = Sum3(Sum3(m, t, Nothing), y, n)
            /\ fundamental.dividendYield = NA =>
                   Accumulated = Sum3(Sum3(m, t, Nothing), v, n)
            /\ sentiment = SentimentSentinel =>
                   Accumulated = Sum3(Sum3(m, t, Nothing), v, y)

\* the technical signal is missing and the other two signals scored
C9_Witness ==
    /\ pc = "done"
    /\ technical = TechnicalSentinel
    /\ fundamental = FundamentalSignal(NumStr(1499), NumStr(301))
    /\ sentiment.score = 51
    /\ result.score = 4
    /\ result.action = "Strong Buy"

(***************************************************************************)
(* Properties of the message, over the answer kept as context and the      *)
(* answer of the analysis that follows it.                                 *)
(***************************************************************************)
Answered == pc = "done" /\ lastAnalysis # Null

Previous == lastAnalysis.recommendation

\* C10 as stated: two recommendations with the same action class and the
\* same risk level carry the same message.
C10_MessageByClassAndRisk ==
    Answered =>
        ((/\ Previous.recommendation = result.recommendation
          /\ Previous.riskLevel = result.riskLevel)
            => Previous.message = result.message)

\* the message each (action class, confidence, risk level) is answered with
MessageLookup(class, conf, risk) ==
    CASE class = "BUY" /\ conf = "High" /\ risk = "Low" ->
           "High confidence buy recommendation. Low risk investment with good upside potential."
      [] class = "BUY" /\ conf = "High" /\ risk = "Medium" ->
           "High confidence buy recommendation. Moderate risk - consider position sizing carefully."
      [] class = "BUY" /\ conf = "High" /\ risk = "High" ->
           "High confidence buy recommendation. Higher risk - suitable for aggressive investors only."
      [] class = "BUY" /\ conf = "Medium" /\ risk = "Low" ->
           "Medium confidence buy recommendation. Low risk investment with good upside potential."
      [] class = "BUY" /\ conf = "Medium" /\ risk = "Medium" ->
           "Medium confidence buy recommendation. Moderate risk - consider position sizing carefully."
      [] class = "BUY" /\ conf = "Medium" /\ risk = "High" ->
           "Medium confidence buy recommendation. Higher risk - suitable for aggressive investors only."
      [] class = "HOLD" ->
           "Hold current position. Mixed signals suggest waiting for clearer direction."
      [] class = "SELL" /\ conf = "High" /\ risk = "High" ->
           "High confidence sell recommendation. High risk of further decline - consider exit strategy."
      [] class = "SELL" /\ conf = "High" /\ risk \in {"Low", "Medium"} ->
           "High confidence sell recommendation. Consider taking profits or reducing exposure."
      [] class = "SELL" /\ conf = "Medium" /\ risk = "High" ->
           "Medium confidence sell recommendation. High risk of further decline - consider exit strategy."
      [] class = "SELL" /\ conf = "Medium" /\ risk \in {"Low", "Medium"} ->
           "Medium confidence sell recommendation. Consider taking profits or reducing exposure."

\* C10 amended: the message is fixed by action class, confidence and risk
\* level together: it is the entry of a fixed lookup on the three, so two
\* recommendations that agree on all three carry the same message.
C10_MessageByClassConfidenceRisk ==
    /\ pc = "done" =>
        result.message =
            MessageLookup(result.recommendation, result.confidence, result.riskLevel)
    /\ Answered =>
        ((/\ Previous.recommendation = result.recommendation
          /\ Previous.confidence = result.confidence
          /\ Previous.riskLevel = result.riskLevel)
            => Previous.message = result.message)

\* two answers of the same class and risk level that differ in confidence,
\* and therefore in message
C10_Witness ==
    /\ Answered
    /\ Previous.recommendation = "BUY"
    /\ result.recommendation = "BUY"
    /\ Previous.riskLevel = result.riskLevel
    /\ Previous.confidence = "High"
    /\ result.confidence = "Medium"
    /\ Previous.message # result.message

(***************************************************************************)
(* Strings.  A JavaScript string is a TLA+ string; a value that may also   *)
(* be undefined is wrapped as Str(s).                                      *)
(***************************************************************************)
Str(s) == [t |-> "string", s |-> s]

\* ToBoolean of a wrapped value: a non-empty string is the only truthy one
Truthy(x) == x.t = "string" /\ x.s # ""

UpperCaseLetters == "ABCDEFGHIJKLMNOPQRSTUVWXYZ"
LowerCaseLetters == "abcdefghijklmnopqrstuvwxyz"

\* the lower-case form of one character
LowerChar(c) ==
    IF \E i \in 1..Len(UpperCaseLetters) : SubSeq(UpperCaseLetters, i, i) = c
    THEN LET i == CHOOSE j \in 1..Len(UpperCaseLetters) :
                      SubSeq(UpperCaseLetters, j, j) = c
         IN SubSeq(LowerCaseLetters, i, i)
    ELSE c

\* String.prototype.toLowerCase
RECURSIVE toLowerCase(_)
toLowerCase(s) ==
    IF Len(s) = 0 THEN ""
    ELSE LowerChar(SubSeq(s, 1, 1)) \o toLowerCase(SubSeq(s, 2, Len(s)))

\* String.prototype.includes for a non-empty word
Includes(s, word) ==
    \E i \in 1..(Len(s) - Len(word) + 1) :
        SubSeq(s, i, i + Len(word) - 1) = word

(***************************************************************************)
(* getSentimentFromNews.  Scores are integers; the mean is kept as the     *)
(* pair (totalScore, count) and the returned score is in hundredths.       *)
(***************************************************************************)
positiveWords ==
    <<"growth", "profit", "increase", "rise", "gain", "strong", "beat",
      "exceed", "positive", "up">>

negativeWords ==
    <<"loss", "decline", "fall", "drop", "weak", "miss", "negative", "down",
      "concern", "risk">>

\* the two forEach loops with the title matched as it is written
HeadlineScoreCaseSensitive(articleTitle) ==
    LET title == articleTitle
    IN Cardinality({i \in DOMAIN positiveWords : Includes(title, positiveWords[i])})
         - Cardinality({i \in DOMAIN negativeWords : Includes(title, negativeWords[i])})

\* the two forEach loops over the word lists: one point per word the
\* lower-cased title includes
HeadlineScore(articleTitle) ==
    LET title == toLowerCase(articleTitle)
    IN Cardinality({i \in DOMAIN positiveWords : Includes(title, positiveWords[i])})
         - Cardinality({i \in DOMAIN negativeWords : Includes(title, negativeWords[i])})

\* the headlines pushed by the forEach over the articles: titled ones only
RECURSIVE Headlines(_)
Headlines(articles) ==
    IF articles = <<>> THEN <<>>
    ELSE LET article == Head(articles)
         IN (IF Truthy(article.title)
             THEN <<[title |-> article.title.s,
                     sentiment |-> HeadlineScore(article.title.s)]>>
             ELSE <<>>) \o Headlines(Tail(articles))

\* totalScore after the forEach
RECURSIVE TotalScore(_)
TotalScore(articles) ==
    IF articles = <<>> THEN 0
    ELSE (IF Truthy(Head(articles).title)
          THEN HeadlineScore(Head(articles).title.s)
          ELSE 0) + TotalScore(Tail(articles))

\* the message chain with the last test inclusive
AverageLabelInclusive(totalScore, count) ==
    IF 2 * totalScore > count THEN "Very Positive sentiment in recent news"
    ELSE IF totalScore > 0 THEN "Positive sentiment in recent news"
    ELSE IF totalScore = 0 THEN "Neutral sentiment in recent news"
    ELSE IF 2 * totalScore >= -count THEN "Negative sentiment in recent news"
    ELSE "Very Negative sentiment in recent news"

\* the message chain on avgScore = totalScore / count, count > 0:
\* avgScore > 0.5 is 2 * totalScore > count, avgScore > -0.5 is
\* 2 * totalScore > -count
AverageLabel(totalScore, count) ==
    IF 2 * totalScore > count THEN "Very Positive sentiment in recent news"
    ELSE IF totalScore > 0 THEN "Positive sentiment in recent news"
    ELSE IF totalScore = 0 THEN "Neutral sentiment in recent news"
    ELSE IF 2 * totalScore > -count THEN "Negative sentiment in recent news"
    ELSE "Very Negative sentiment in recent news"

\* the mean rounded to a whole number
RoundedAverageWhole(totalScore, count) ==
    100 * ((2 * totalScore + count) \div (2 * count))

\* Math.round(avgScore * 100) / 100 in hundredths: Math.round rounds a half
\* towards plus infinity
RoundedAverage(totalScore, count) == (200 * totalScore + count) \div (2 * count)

\* getSentimentFromNews falling through to the scoring for an empty list
getSentimentFromNewsNoEarlyReturn(data) ==
    LET n == Len(data.articles)
        totalScore == TotalScore(data.articles)
    IN [score |-> IF n > 0 THEN RoundedAverage(totalScore, n) ELSE 0,
        message |-> IF n > 0 THEN AverageLabel(totalScore, n)
                    ELSE AverageLabel(0, 1),
        headlines |-> Slice(Headlines(data.articles), 5)]

getSentimentFromNews(data) ==
    IF Len(data.articles) = 0
    THEN SentimentSentinel
    ELSE LET n == Len(data.articles)
             totalScore == TotalScore(data.articles)
         IN [score |-> RoundedAverage(totalScore, n),
             message |-> AverageLabel(totalScore, n),
             headlines |-> Slice(Headlines(data.articles), 5)]

(***************************************************************************)
(* The sentiment step on its own: every list of up to MaxArticles articles *)
(* drawn from titles that hit the word lists in the ways the scoring       *)
(* distinguishes.                                                          *)
(***************************************************************************)
Titles ==
    {"Apple profit beats estimates", "Growth concern", "Growth on growth",
     "Shares drop on weak demand", "Startup enterprise", "Apple event today",
     "Loss", ""}

Articles == {[title |-> Str(s)] : s \in Titles}

RECURSIVE ListsOf(_, _)
ListsOf(S, n) ==
    IF n = 0 THEN {<<>>}
    ELSE ListsOf(S, n - 1)
           \cup {<<x>> \o l : x \in S, l \in {m \in ListsOf(S, n - 1) : Len(m) = n - 1}}

NewsInputs == {[articles |-> l] : l \in ListsOf(Articles, MaxArticles)}

\* analyzeAsset: const sentiment = getSentimentFromNews(newsData)
ScoreNews ==
    /\ apiPc = "news"
    /\ sentiment' = getSentimentFromNews(newsData)
    /\ apiPc' = "scored"
    /\ UNCHANGED <<conv, technical, fundamental, pc, locals, result, lastAnalysis,
                   env, newsData, request, fetches, settled, response, fetchCount,
                   message, lastSymbol, clientPc>>

InitNews ==
    /\ technical = TechnicalSentinel
    /\ fundamental = FundamentalSentinel
    /\ sentiment = Null
    /\ pc = "idle"
    /\ score = 0
    /\ reasons = <<>>
    /\ riskFactors = <<>>
    /\ recommendation = "undefined"
    /\ action = "undefined"
    /\ confidence = "undefined"
    /\ riskLevel = "undefined"
    /\ result = Null
    /\ lastAnalysis = Null
    /\ env = NoProviders
    /\ newsData \in NewsInputs
    /\ request = Null
    /\ apiPc = "news"
    /\ fetches = NoFetches
    /\ settled = <<>>
    /\ response = Null
    /\ fetchCount = 0
    /\ message = ""
    /\ lastSymbol = Null
    /\ clientPc = "idle"
    /\ ConvIdle

NextNews == ScoreNews

SpecNews == InitNews /\ [][NextNews]_vars

(***************************************************************************)
(* Claims about getSentimentFromNews, checked under SpecNews.              *)
(***************************************************************************)
NewsScored == apiPc = "scored"

RECURSIVE SumSentiment(_)
SumSentiment(headlines) ==
    IF headlines = <<>> THEN 0
    ELSE Head(headlines).sentiment + SumSentiment(Tail(headlines))

\* the hundredth nearest to num / den, a half going up
NearestHundredth(num, den) ==
    CHOOSE r \in -1000..1000 :
        /\ 2 * den * r - den <= 200 * num
        /\ 200 * num < 2 * den * r + den

\* C18: for a non-empty article list the returned score is the sum of the
\* per-headline scores divided by the number of headlines that were scored,
\* rounded to two decimals; untitled articles do not change the mean.
C18_MeanOverScoredHeadlines ==
    (/\ NewsScored
     /\ Len(newsData.articles) > 0
     /\ Len(sentiment.headlines) > 0) =>
        sentiment.score =
            NearestHundredth(SumSentiment(sentiment.headlines),
                             Len(sentiment.headlines))

\* the number of places at which word occurs in s
Occurrences(s, word) ==
    Cardinality({i \in 1..(Len(s) - Len(word) + 1) :
                    SubSeq(s, i, i + Len(word) - 1) = word})

RECURSIVE SumOver(_, _)
SumOver(f, S) ==
    IF S = {} THEN 0
    ELSE LET x == CHOOSE y \in S : TRUE IN f[x] + SumOver(f, S \ {x})

\* positive occurrences minus negative occurrences in the lower-cased title
OccurrenceScore(articleTitle) ==
    LET title == toLowerCase(articleTitle)
    IN SumOver([i \in DOMAIN positiveWords |-> Occurrences(title, positiveWords[i])],
               DOMAIN positiveWords)
         - SumOver([i \in DOMAIN negativeWords |-> Occurrences(title, negativeWords[i])],
                   DOMAIN negativeWords)

\* positive terms present minus negative terms present in the lower-cased
\* title, a term counted once however often it occurs
PresenceScore(articleTitle) ==
    LET title == toLowerCase(articleTitle)
    IN Cardinality({i \in DOMAIN positiveWords :
                       Occurrences(title, positiveWords[i]) > 0})
         - Cardinality({i \in DOMAIN negativeWords :
                           Occurrences(title, negativeWords[i]) > 0})

\* C19 as stated: the per-headline score is the number of occurrences of
\* positive terms minus the number of occurrences of negative terms in the
\* lower-cased title, every occurrence counting.
C19_ScoreCountsOccurrences ==
    NewsScored =>
        \A i \in 1..Len(IF "headlines" \in DOMAIN sentiment
                        THEN sentiment.headlines ELSE <<>>) :
            sentiment.headlines[i].sentiment
                = OccurrenceScore(sentiment.headlines[i].title)

\* C19 amended: the per-headline score is the number of positive terms that
\* occur in the lower-cased title minus the number of negative terms that
\* occur in it (substring match, each term counted once per headline); a
\* headline with one positive and one negative term scores 0.
C19_ScoreCountsTermsPresent ==
    NewsScored =>
        \A i \in 1..Len(IF "headlines" \in DOMAIN sentiment
                        THEN sentiment.headlines ELSE <<>>) :
            /\ sentiment.headlines[i].sentiment
                 = PresenceScore(sentiment.headlines[i].title)
            /\ sentiment.headlines[i].title = "Growth concern"
                 => sentiment.headlines[i].sentiment = 0

C19_Witness ==
    /\ NewsScored
    /\ Len(newsData.articles) = 2
    /\ Len(sentiment.headlines) = 2
    /\ sentiment.headlines[1] = [title |-> "Growth on growth", sentiment |-> 1]
    /\ sentiment.headlines[2] = [title |-> "Growth concern", sentiment |-> 0]

UpperChar(c) ==
    IF \E i \in 1..Len(LowerCaseLetters) : SubSeq(LowerCaseLetters, i, i) = c
    THEN LET i == CHOOSE j \in 1..Len(LowerCaseLetters) :
                      SubSeq(LowerCaseLetters, j, j) = c
         IN SubSeq(UpperCaseLetters, i, i)
    ELSE c

\* String.prototype.toUpperCase
RECURSIVE toUpperCase(_)
toUpperCase(s) ==
    IF Len(s) = 0 THEN ""
    ELSE UpperChar(SubSeq(s, 1, 1)) \o toUpperCase(SubSeq(s, 2, Len(s)))

\* x || d for a value that may be undefined, null or the empty string
OrElse(x, d) ==
    IF x.t \in {"undefined", "null"} \/ (x.t = "string" /\ x.s = "") THEN d ELSE x

\* obj[name] of an object kept as the record of the properties it has
Get(obj, name) == IF name \in DOMAIN obj THEN obj[name] ELSE Undefined

\* Array.prototype.join('\n')
RECURSIVE JoinLines(_)
JoinLines(lines) ==
    IF lines = <<>> THEN ""
    ELSE IF Len(lines) = 1 THEN lines[1]
    ELSE lines[1] \o "\n" \o JoinLines(Tail(lines))

\* a two-decimal string as the template literal prints it
Fixed2(n) ==
    LET a == IF n < 0 THEN -n ELSE n
    IN (IF n < 0 THEN "-" ELSE "") \o ToString(a \div 100) \o "."
          \o ToString((a % 100) \div 10) \o ToString(a % 10)

\* a signal field inside a template literal
Text(x) ==
    IF x.t = "numstr" THEN Fixed2(x.v)
    ELSE IF x.t = "N/A" THEN "N/A"
    ELSE IF x.t = "None" THEN "None"
    ELSE "undefined"

NoNews == [articles |-> <<>>]

\* getTechnicalAnalysis of the GLOBAL_QUOTE variant
getTechnicalAnalysis(answer) ==
    CASE answer.kind = "noKey" -> TechnicalSentinel        \* 436: thrown, caught
      [] answer.kind = "network" -> TechnicalSentinel      \* 440: fetch rejects
      [] answer.kind = "status" -> TechnicalSentinel       \* 442: thrown, caught
      [] answer.kind = "rateLimit" -> DemoTechnical        \* 449: the canned quote
      [] answer.kind = "errorPayload" -> TechnicalSentinel \* 462: no Global Quote
      [] answer.kind = "empty" -> TechnicalSentinel        \* 462: empty Global Quote
      [] answer.kind = "quote" -> TechnicalSentinel        \* 466: timeSeries is not
                                                           \* declared: ReferenceError

\* getFundamentalAnalysis: no test of response.ok; a body that is not JSON
\* makes response.json() reject
getFundamentalAnalysis(answer) ==
    IF answer.kind = "noKey" THEN FundamentalSentinel
    ELSE IF answer.kind \in {"network", "status", "errorPayload"}
    THEN FundamentalSentinel
    ELSE FundamentalSignal(OrElse(answer.data.PERatio, NA),
                           OrElse(answer.data.DividendYield, NA))

companyNames(symbol) ==
    CASE symbol = "AAPL" -> "Apple Inc"
      [] symbol = "TSLA" -> "Tesla"
      [] symbol = "MSFT" -> "Microsoft"
      [] symbol = "GOOGL" -> "Google"
      [] symbol = "AMZN" -> "Amazon"
      [] symbol = "META" -> "Meta Facebook"
      [] symbol = "NVDA" -> "NVIDIA"
      [] symbol = "NFLX" -> "Netflix"
      [] OTHER -> symbol

\* the filter callback of getNewsAnalysis
RelevantArticle(article, symbol) ==
    LET title == toLowerCase(article.title.s)
        description == toLowerCase(OrElse(article.description, Str("")).s)
        symbolLower == toLowerCase(symbol)
        companyLower == toLowerCase(companyNames(symbol))
    IN \/ Includes(title, symbolLower)
       \/ Includes(title, companyLower)
       \/ Includes(description, symbolLower)
       \/ Includes(description, companyLower)

\* getNewsAnalysis: article.title.toLowerCase() throws for a title that is
\* null, and data.articles.filter throws for an error payload
getNewsAnalysis(symbol, answer) ==
    IF answer.kind = "noKey" THEN NoNews
    ELSE IF answer.kind \in {"network", "status", "rateLimit", "errorPayload"}
    THEN NoNews
    ELSE IF \E i \in 1..Len(answer.data) : answer.data[i].title.t # "string"
    THEN NoNews
    ELSE LET relevantArticles ==
                 SelectSeq(answer.data, LAMBDA a : RelevantArticle(a, symbol))
             kept == Slice(relevantArticles, 5)
         IN [articles |-> [i \in 1..Len(kept) |-> [title |-> kept[i].title]]]

\* the follow-up text with the risk category tested before the why category
followUpResponseRiskFirst(symbol, userQuery, context) ==
    LET lowerQuery == toLowerCase(userQuery)
        rec == Get(context, "recommendation")
        has == rec # Undefined /\ rec # Null
    IN IF Includes(lowerQuery, "risk")
       THEN ("Risk assessment for " \o symbol \o ":\n\n")
            \o ("Risk Level: " \o (IF has THEN rec.riskLevel ELSE "Medium") \o "\n\n")
            \o (IF has /\ Len(rec.riskFactors) > 0
                THEN JoinLines([i \in 1..Len(rec.riskFactors) |->
                                   "! " \o rec.riskFactors[i]])
                ELSE "No major risk factors identified at this time.")
       ELSE IF Includes(lowerQuery, "why")
       THEN ("Here's why I recommend "
               \o (IF has THEN rec.action ELSE "this position")
               \o " for " \o symbol \o ":\n\n")
            \o (IF has /\ Len(rec.reasons) > 0
                THEN JoinLines([i \in 1..Len(rec.reasons) |-> "* " \o rec.reasons[i]])
                ELSE "Based on current market conditions and technical indicators.")
       ELSE "Based on my analysis of " \o symbol \o ", "
               \o (IF has THEN rec.message ELSE "the current position looks stable.")

\* the follow-up branch of analyzeAsset: the text of followUpResponse.  The
\* bullet and warning glyphs of the two map callbacks are written * and !
followUpResponse(symbol, userQuery, context) ==
    LET lowerQuery == toLowerCase(userQuery)
        rec == Get(context, "recommendation")
        has == rec # Undefined /\ rec # Null
    IN IF Includes(lowerQuery, "why")
       THEN ("Here's why I recommend "
               \o (IF has THEN rec.action ELSE "this position")
               \o " for " \o symbol \o ":\n\n")
            \o (IF has /\ Len(rec.reasons) > 0
                THEN JoinLines([i \in 1..Len(rec.reasons) |-> "* " \o rec.reasons[i]])
                ELSE "Based on current market conditions and technical indicators.")
       ELSE IF Includes(lowerQuery, "risk")
       THEN ("Risk assessment for " \o symbol \o ":\n\n")
            \o ("Risk Level: " \o (IF has THEN rec.riskLevel ELSE "Medium") \o "\n\n")
            \o (IF has /\ Len(rec.riskFactors) > 0
                THEN JoinLines([i \in 1..Len(rec.riskFactors) |->
                                   "! " \o rec.riskFactors[i]])
                ELSE "No major risk factors identified at this time.")
       ELSE "Based on my analysis of " \o symbol \o ", "
               \o (IF has THEN rec.message ELSE "the current position looks stable.")

\* the follow-up result with the news list left out
FollowUpResultWithoutNews(symbol, userQuery, context) ==
    [symbol |-> symbol,
     summary |-> followUpResponse(symbol, userQuery, context),
     isFollowUp |-> TRUE,
     technical |-> Get(context, "technical"),
     fundamental |-> Get(context, "fundamental"),
     sentiment |-> Get(context, "sentiment"),
     news |-> NoNews,
     recommendation |-> Get(context, "recommendation")]

\* the object the follow-up branch returns (the timestamp is the clock's)
FollowUpResult(symbol, userQuery, context) ==
    [symbol |-> symbol,
     summary |-> followUpResponse(symbol, userQuery, context),
     isFollowUp |-> TRUE,
     technical |-> Get(context, "technical"),
     fundamental |-> Get(context, "fundamental"),
     sentiment |-> Get(context, "sentiment"),
     news |-> Get(context, "news"),
     recommendation |-> Get(context, "recommendation")]

\* generateSummary; the provider messages and the market capitalisation,
\* which no rule reads, are not carried by the signals and leave their
\* lines out
generateSummary(symbol, rec, tech, fund, sent) ==
    ("**" \o symbol \o " Analysis Summary:**\n\n")
    \o (IF rec # Null
        THEN "**Smart Signal:** " \o rec.action \o " (" \o rec.confidence
                \o " confidence, " \o rec.riskLevel \o " risk)\n"
                \o rec.message \o "\n\n"
        ELSE "")
    \o (IF tech.price # NA
        THEN "**Technical:** $" \o Text(tech.price) \o " ("
                \o (IF Gt(parseFloat(tech.changePercent), 0) THEN "+" ELSE "")
                \o Text(tech.changePercent) \o "%)\n\n"
        ELSE "")
    \o (IF fund.peRatio # NA
        THEN "**Fundamentals:** P/E " \o Text(fund.peRatio) \o "\n\n"
        ELSE "")
    \o ("**Market Sentiment:** " \o sent.message \o "\n")

\* the analysis object analyzeAsset returns after a fresh analysis
AnalysisResult ==
    LET symbol == toUpperCase(request.symbol.s)
    IN [symbol |-> symbol,
        summary |-> generateSummary(symbol, result, technical, fundamental,
                                    sentiment),
        isFollowUp |-> request.isFollowUp,
        technical |-> technical,
        fundamental |-> fundamental,
        sentiment |-> sentiment,
        news |-> newsData,
        recommendation |-> result]

\* generateRecommendation as one expression: the five rules in their order,
\* the classification, the risk level and the returned object
generateRecommendation(tech, fund, sent) ==
    LET m == TechnicalMomentum(tech)
        t == TechnicalTrend(tech)
        v == FundamentalValuation(fund)
        y == FundamentalDividend(fund)
        n == SentimentRule(sent.score)
        total == [d |-> m.d + t.d + v.d + y.d + n.d,
                  r |-> m.r \o t.r \o v.r \o y.r \o n.r,
                  k |-> m.k \o t.k \o v.k \o y.k \o n.k]
        c == ClassifyScore(total.d)
        risk == RiskAssessment(Len(total.k))
    IN [recommendation |-> c.recommendation,
        action |-> c.action,
        confidence |-> c.confidence,
        score |-> total.d,
        riskLevel |-> risk,
        reasons |-> Slice(total.r, 4),
        riskFactors |-> Slice(total.k, 3),
        message |-> generateRecommendationMessage(c.recommendation, c.confidence, risk)]

\* the fresh branch of analyzeAsset as one expression of the provider
\* answers
FreshResult(symbol, isFollowUp, answers) ==
    LET technicalData == getTechnicalAnalysis(answers.technical)
        fundamentalData == getFundamentalAnalysis(answers.fundamental)
        news == getNewsAnalysis(symbol, answers.news)
        sent == getSentimentFromNews(news)
        rec == generateRecommendation(technicalData, fundamentalData, sent)
    IN [symbol |-> symbol,
        summary |-> generateSummary(symbol, rec, technicalData, fundamentalData,
                                    sent),
        isFollowUp |-> isFollowUp,
        technical |-> technicalData,
        fundamental |-> fundamentalData,
        sentiment |-> sent,
        news |-> news,
        recommendation |-> rec]

Fetchers == {"technical", "fundamental", "news"}

\* what a fetcher resolves to, as if a fetcher saw the notice another one
\* had already been given by the same provider
FetchValueSharedQuota(f) ==
    LET limited == \E g \in Fetchers :
                       /\ g # f
                       /\ fetches[g].state = "settled"
                       /\ env[g].kind = "rateLimit"
        symbol == toUpperCase(request.symbol.s)
    IN CASE f = "technical" ->
              getTechnicalAnalysis(IF limited THEN [kind |-> "rateLimit"]
                                   ELSE env.technical)
         [] f = "fundamental" -> getFundamentalAnalysis(env.fundamental)
         [] f = "news" -> getNewsAnalysis(symbol, env.news)

\* what a fetcher resolves to: each reads its own provider answer only
FetchValue(f) ==
    LET symbol == toUpperCase(request.symbol.s)
    IN CASE f = "technical" -> getTechnicalAnalysis(env.technical)
         [] f = "fundamental" -> getFundamentalAnalysis(env.fundamental)
         [] f = "news" -> getNewsAnalysis(symbol, env.news)

\* handler from the destructuring of req.body to the call of analyzeAsset,
\* and analyzeAsset up to the return of the follow-up branch or the call of
\* Promise.all, whose three arguments run up to their first await
Dispatch ==
    /\ apiPc = "received"
    /\ IF ~Truthy(request.symbol)
       THEN /\ response' = [status |-> 400, body |-> [error |-> "Symbol is required"]]
            /\ apiPc' = "responded"
            /\ UNCHANGED <<fetches, fetchCount>>
       ELSE IF request.isFollowUp /\ request.context # Null
       THEN /\ response' =
                  IF request.query.t = "string"
                  THEN [status |-> 200,
                        body |-> FollowUpResult(toUpperCase(request.symbol.s),
                                                request.query.s, request.context)]
                  ELSE [status |-> 500, body |-> [error |-> "Analysis failed"]]
            /\ apiPc' = "responded"
            /\ UNCHANGED <<fetches, fetchCount>>
       ELSE /\ fetches' = [f \in Fetchers |-> [state |-> "pending", value |-> Null]]
            /\ fetchCount' = fetchCount
                   + Cardinality({f \in Fetchers : env[f].kind # "noKey"})
            /\ apiPc' = "awaiting"
            /\ UNCHANGED response
    /\ settled' = <<>>
    /\ UNCHANGED <<conv, inputs, pc, locals, result, lastAnalysis, env, newsData,
                   request, message, lastSymbol, clientPc>>

\* one of the three promises settles
Complete(f) ==
    /\ apiPc = "awaiting"
    /\ fetches[f].state = "pending"
    /\ fetches' = [fetches EXCEPT ![f] = [state |-> "settled",
                                          value |-> FetchValue(f)]]
    /\ settled' = Append(settled, f)
    /\ UNCHANGED <<conv, inputs, pc, locals, result, lastAnalysis, env, newsData,
                   request, apiPc, response, fetchCount, message, lastSymbol,
                   clientPc>>

\* Promise.all resolves: the destructuring and the assignments up to the call
\* of generateRecommendation
Compose ==
    /\ apiPc = "awaiting"
    /\ \A f \in Fetchers : fetches[f].state = "settled"
    /\ technical' = fetches["technical"].value
    /\ fundamental' = fetches["fundamental"].value
    /\ newsData' = fetches["news"].value
    /\ sentiment' = getSentimentFromNews(fetches["news"].value)
    /\ EnterRecommendation
    /\ apiPc' = "scoring"
    /\ UNCHANGED <<conv, lastAnalysis, env, request, fetches, settled, response,
                   fetchCount, message, lastSymbol, clientPc>>

\* generateRecommendation has returned: generateSummary, return analysis and
\* res.status(200).json(analysis); an exception reaches the handler's catch
Respond ==
    /\ apiPc = "scoring"
    /\ pc \in {"done", "threw"}
    /\ response' = IF pc = "done"
                   THEN [status |-> 200, body |-> AnalysisResult]
                   ELSE [status |-> 500, body |-> [error |-> "Analysis failed"]]
    /\ apiPc' = "responded"
    /\ pc' = "idle"
    /\ UNCHANGED <<conv, inputs, locals, result, lastAnalysis, env, newsData, request,
                   fetches, settled, fetchCount, message, lastSymbol, clientPc>>

Server ==
    \/ Dispatch
    \/ \E f \in Fetchers : Complete(f)
    \/ Compose
    \/ Engine
    \/ Respond

(***************************************************************************)
(* The function called directly: one POST with any body, under any answer  *)
(* of the three providers.                                                 *)
(***************************************************************************)
FailureKinds ==
    {"noKey", "network", "status", "rateLimit", "errorPayload", "empty"}

NoOverview == [PERatio |-> Undefined, DividendYield |-> Undefined]

TechnicalAnswers == {[kind |-> k] : k \in FailureKinds \cup {"quote"}}

FundamentalAnswers ==
    {[kind |-> k, data |-> NoOverview] : k \in FailureKinds}
        \cup {[kind |-> "overview", data |-> d] :
                d \in {[PERatio |-> NumStr(1499), DividendYield |-> NumStr(301)],
                       [PERatio |-> NumStr(4001), DividendYield |-> None]}}

\* a provider page: a relevant headline, an untitled article whose
\* description names two symbols, one about another company, an unrelated one
NewsWire ==
    <<[title |-> Str("Apple Inc profit beats estimates"),
       description |-> Str("Quarterly results")],
      [title |-> Str(""), description |-> Str("AAPL and TSLA movers")],
      [title |-> Str("Tesla shares drop on weak demand"), description |-> Null],
      [title |-> Str("Market wrap"), description |-> Str("Stocks mixed")]>>

\* a provider page holding an article without a title
NewsUntitled ==
    <<[title |-> Null, description |-> Str("AAPL and TSLA movers")]>>

NewsAnswers ==
    {[kind |-> k, data |-> <<>>] : k \in FailureKinds}
        \cup {[kind |-> "articles", data |-> d] : d \in {NewsWire, NewsUntitled}}

\* both Alpha Vantage fetchers read the same credential
Environments ==
    {e \in [technical : TechnicalAnswers, fundamental : FundamentalAnswers,
            news : NewsAnswers] :
        (e.technical.kind = "noKey") <=> (e.fundamental.kind = "noKey")}

\* a context object that has none of the fields of an analysis
EmptyContext == [note |-> "none"]

\* the analysis of an earlier request: the canned quote, an expensive
\* overview and the news page
PriorAnalysis ==
    FreshResult("AAPL", FALSE,
                [technical |-> [kind |-> "rateLimit"],
                 fundamental |-> [kind |-> "overview",
                                  data |-> [PERatio |-> NumStr(4001),
                                            DividendYield |-> None]],
                 news |-> [kind |-> "articles", data |-> NewsWire]])

Contexts == {Null, EmptyContext, PriorAnalysis}

Queries ==
    {Undefined, Str("Why buy?"), Str("What is the RISK?"),
     Str("why take the risk"), Str("Tell me more")}

Symbols == {Undefined, Str(""), Str("aapl")}

\* every body that takes the follow-up branch or has no symbol, and the
\* fresh analyses of three bodies
Requests ==
    {r \in [symbol : Symbols, query : Queries, context : Contexts,
            isFollowUp : BOOLEAN] :
        \/ r.isFollowUp /\ r.context # Null
        \/ r.query = Undefined /\ r.context = Null
        \/ r.query = Str("Why buy?") /\ r.context = PriorAnalysis}

\* a POST arrives
Post ==
    /\ apiPc = "idle"
    /\ request' \in Requests
    /\ apiPc' = "received"
    /\ UNCHANGED <<conv, inputs, pc, locals, result, lastAnalysis, env, newsData,
                   fetches, settled, response, fetchCount, message, lastSymbol,
                   clientPc>>

InitApi ==
    /\ technical = TechnicalSentinel
    /\ fundamental = FundamentalSentinel
    /\ sentiment = SentimentSentinel
    /\ score = 0
    /\ reasons = <<>>
    /\ riskFactors = <<>>
    /\ recommendation = "undefined"
    /\ action = "undefined"
    /\ confidence = "undefined"
    /\ riskLevel = "undefined"
    /\ result = Null
    /\ pc = "idle"
    /\ lastAnalysis = Null
    /\ env \in Environments
    /\ newsData = NoNews
    /\ request = Null
    /\ apiPc = "idle"
    /\ fetches = NoFetches
    /\ settled = <<>>
    /\ response = Null
    /\ fetchCount = 0
    /\ message = ""
    /\ lastSymbol = Null
    /\ clientPc = "idle"
    /\ ConvIdle

NextApi ==
    \/ Post
    \/ Server

SpecApi == InitApi /\ [][NextApi]_vars

(***************************************************************************)
(* The chat client: extractSymbol and sendMessage, talking to the          *)
(* serverless function.                                                    *)
(***************************************************************************)
Digits == "0123456789"

IsUpper(c) ==
    \E i \in 1..Len(UpperCaseLetters) : SubSeq(UpperCaseLetters, i, i) = c

\* a character of the class \w
IsWordChar(c) ==
    \/ IsUpper(c)
    \/ \E i \in 1..Len(LowerCaseLetters) : SubSeq(LowerCaseLetters, i, i) = c
    \/ \E i \in 1..Len(Digits) : SubSeq(Digits, i, i) = c
    \/ c = "_"

\* String.prototype.trim, for blanks
RECURSIVE trim(_)
trim(s) ==
    IF Len(s) = 0 THEN s
    ELSE IF SubSeq(s, 1, 1) = " " THEN trim(SubSeq(s, 2, Len(s)))
    ELSE IF SubSeq(s, Len(s), Len(s)) = " " THEN trim(SubSeq(s, 1, Len(s) - 1))
    ELSE s

\* message.match(/\b[A-Z]{1,5}\b/): the first run of one to five capitals
\* that has no word character before it and none after it; Null for no match
SymbolMatch(s) ==
    LET At(i) == SubSeq(s, i, i)
        Matches(i, n) ==
            /\ i + n - 1 <= Len(s)
            /\ \A j \in i..(i + n - 1) : IsUpper(At(j))
            /\ (i = 1 \/ ~IsWordChar(At(i - 1)))
            /\ (i + n > Len(s) \/ ~IsWordChar(At(i + n)))
        starts == {i \in 1..Len(s) : \E n \in 1..5 : Matches(i, n)}
    IN IF starts = {} THEN Null
       ELSE LET i == CHOOSE a \in starts : \A b \in starts : a <= b
                n == CHOOSE k \in 1..5 : Matches(i, k)
            IN Str(SubSeq(s, i, i + n - 1))

followUpWords ==
    <<"why", "how", "what", "should", "risk", "price", "news", "explain",
      "tell", "more">>

\* the entries of companyMap in their order
companyMap ==
    <<<<"apple", "AAPL">>, <<"iphone", "AAPL">>, <<"mac", "AAPL">>,
      <<"ipad", "AAPL">>, <<"tesla", "TSLA">>, <<"elon", "TSLA">>,
      <<"musk", "TSLA">>, <<"electric car", "TSLA">>, <<"microsoft", "MSFT">>,
      <<"windows", "MSFT">>, <<"xbox", "MSFT">>, <<"office", "MSFT">>,
      <<"google", "GOOGL">>, <<"alphabet", "GOOGL">>, <<"youtube", "GOOGL">>,
      <<"android", "GOOGL">>, <<"amazon", "AMZN">>, <<"aws", "AMZN">>,
      <<"bezos", "AMZN">>, <<"prime", "AMZN">>, <<"meta", "META">>,
      <<"facebook", "META">>, <<"instagram", "META">>, <<"whatsapp", "META">>,
      <<"netflix", "NFLX">>, <<"streaming", "NFLX">>, <<"nvidia", "NVDA">>,
      <<"ai chip", "NVDA">>, <<"gpu", "NVDA">>, <<"berkshire", "BRK.B">>,
      <<"buffett", "BRK.B">>, <<"warren", "BRK.B">>, <<"jpmorgan", "JPM">>,
      <<"jp morgan", "JPM">>, <<"disney", "DIS">>, <<"mickey", "DIS">>,
      <<"coca cola", "KO">>, <<"coke", "KO">>, <<"walmart", "WMT">>,
      <<"boeing", "BA">>, <<"intel", "INTC">>, <<"amd", "AMD">>,
      <<"paypal", "PYPL">>, <<"salesforce", "CRM">>, <<"zoom", "ZM">>,
      <<"uber", "UBER">>, <<"airbnb", "ABNB">>, <<"spotify", "SPOT">>,
      <<"twitter", "TWTR">>, <<"x corp", "TWTR">>>>

\* the follow-up test of extractSymbol
MatchesFollowUp(msg) ==
    LET lowerMessage == trim(toLowerCase(msg))
    IN \/ \E i \in DOMAIN followUpWords : Includes(lowerMessage, followUpWords[i])
       \/ Includes(msg, "?")

\* extractSymbol: a wrapped string, or Null
extractSymbol(msg, last) ==
    LET lowerMessage == trim(toLowerCase(msg))
        symbolMatch == SymbolMatch(msg)
        hits == {i \in DOMAIN companyMap : Includes(lowerMessage, companyMap[i][1])}
    IN IF MatchesFollowUp(msg) /\ last # Null THEN last
       ELSE IF symbolMatch # Null THEN symbolMatch
       ELSE IF hits # {}
       THEN Str(companyMap[CHOOSE i \in hits : \A j \in hits : i <= j][2])
       ELSE Null

\* sendMessage up to the await of fetch: the symbol, the follow-up flag and
\* the POST; without a symbol the handler returns after displayError and the
\* input keeps its text
SendMessage(input) ==
    /\ clientPc = "idle"
    /\ trim(input) # ""
    /\ message' = input
    /\ LET msg == trim(input)
           symbol == extractSymbol(msg, lastSymbol)
       IN IF symbol = Null
          THEN UNCHANGED <<request, apiPc, clientPc, response, fetchCount>>
          ELSE /\ request' = [symbol |-> symbol,
                              query |-> Str(msg),
                              context |-> lastAnalysis,
                              isFollowUp |-> (lastSymbol = symbol
                                                /\ lastAnalysis # Null)]
               /\ apiPc' = "received"
               /\ clientPc' = "waiting"
               /\ response' = Null
               /\ fetchCount' = 0
    /\ UNCHANGED <<conv, inputs, pc, locals, result, lastAnalysis, env, newsData,
                   fetches, settled, lastSymbol>>

\* the response arrives: the context is updated for an OK status, the catch
\* block runs for any other; the input is cleared
ReceiveResponse ==
    /\ clientPc = "waiting"
    /\ apiPc = "responded"
    /\ IF response.status = 200
       THEN /\ lastSymbol' = request.symbol
            /\ lastAnalysis' = response.body
       ELSE UNCHANGED <<lastSymbol, lastAnalysis>>
    /\ message' = ""
    /\ clientPc' = "idle"
    /\ apiPc' = "idle"
    /\ UNCHANGED <<conv, inputs, pc, locals, result, env, newsData, request, fetches,
                   settled, response, fetchCount>>

Messages ==
    {"Analyze AAPL", "Analyze TSLA ", "Why?", "What is the risk",
     "tell me about apple", "hello there", "Is TSLA a buy"}

\* four deployments: nothing configured; the quota of the quote provider
\* used up; every provider answering; the news provider down
ClientEnvironments ==
    {NoProviders,
     [technical |-> [kind |-> "rateLimit"],
      fundamental |-> [kind |-> "overview",
                       data |-> [PERatio |-> NumStr(4001), DividendYield |-> None]],
      news |-> [kind |-> "articles", data |-> NewsWire]],
     [technical |-> [kind |-> "quote"],
      fundamental |-> [kind |-> "overview",
                       data |-> [PERatio |-> NumStr(1499),
                                 DividendYield |-> NumStr(301)]],
      news |-> [kind |-> "articles", data |-> NewsWire]],
     [technical |-> [kind |-> "rateLimit"],
      fundamental |-> [kind |-> "rateLimit", data |-> NoOverview],
      news |-> [kind |-> "network", data |-> <<>>]]}

InitClient ==
    /\ technical = TechnicalSentinel
    /\ fundamental = FundamentalSentinel
    /\ sentiment = SentimentSentinel
    /\ score = 0
    /\ reasons = <<>>
    /\ riskFactors = <<>>
    /\ recommendation = "undefined"
    /\ action = "undefined"
    /\ confidence = "undefined"
    /\ riskLevel = "undefined"
    /\ result = Null
    /\ pc = "idle"
    /\ lastAnalysis = Null
    /\ env \in ClientEnvironments
    /\ newsData = NoNews
    /\ request = Null
    /\ apiPc = "idle"
    /\ fetches = NoFetches
    /\ settled = <<>>
    /\ response = Null
    /\ fetchCount = 0
    /\ message = ""
    /\ lastSymbol = Null
    /\ clientPc = "idle"
    /\ ConvIdle

NextClient ==
    \/ \E input \in Messages : SendMessage(input)
    \/ Server
    \/ ReceiveResponse

SpecClient == InitClient /\ [][NextClient]_vars

(***************************************************************************)
(* Claims about the serverless function, checked under SpecApi.            *)
(***************************************************************************)
Responded == apiPc = "responded"

\* the request being served takes the follow-up branch of analyzeAsset
FollowUpBranch ==
    /\ request # Null
    /\ Truthy(request.symbol)
    /\ request.isFollowUp
    /\ request.context # Null

\* the request being served takes the fresh branch of analyzeAsset
FreshBranch ==
    /\ request # Null
    /\ Truthy(request.symbol)
    /\ ~(request.isFollowUp /\ request.context # Null)

\* C11: the analyze operation surfaces a failure exactly when the symbol is
\* absent or empty; for a non-empty string symbol it answers 200 whatever
\* query, context and isFollowUp are sent and whatever the providers do,
\* never 500.
C11_FailureOnlyWithoutSymbol ==
    Responded =>
        /\ (response.status = 200) <=> Truthy(request.symbol)
        /\ response.status # 500

\* C12: in each of the three fetchers every failure kind (missing credential,
\* error payload or non-success status, rate-limit notice, empty data,
\* network failure) ends in that signal's sentinel, never in another value.
C12_EveryFailureGivesSentinel ==
    \A f \in Fetchers :
        (fetches[f].state = "settled" /\ env[f].kind \in FailureKinds) =>
            CASE f = "technical" -> fetches[f].value.price = NA
              [] f = "fundamental" -> fetches[f].value.peRatio = NA
              [] f = "news" -> fetches[f].value.articles = <<>>

\* C13: in a fresh analysis no fetch settles before all three were started,
\* the result is produced only after all three have settled, every fetch
\* resolves to a value of its own provider answer alone, and the
\* AnalysisResult is the same function of the three answers for every order
\* in which the fetches complete.
C13_OrderIndependentResult ==
    /\ settled # <<>> => \A f \in Fetchers : fetches[f].state # "idle"
    /\ apiPc = "scoring" => \A f \in Fetchers : fetches[f].state = "settled"
    /\ \A f \in Fetchers :
           (apiPc = "awaiting" /\ fetches[f].state = "settled") =>
               fetches[f].value =
                   CASE f = "technical" -> getTechnicalAnalysis(env.technical)
                     [] f = "fundamental" -> getFundamentalAnalysis(env.fundamental)
                     [] f = "news" ->
                          getNewsAnalysis(toUpperCase(request.symbol.s), env.news)
    /\ (Responded /\ FreshBranch) =>
           /\ Len(settled) = 3
           /\ \A f \in Fetchers : fetches[f].state = "settled"
           /\ response.status = 200
           /\ response.body = FreshResult(toUpperCase(request.symbol.s),
                                          request.isFollowUp, env)

\* the fetches completed in the reverse of their order in Promise.all
C13_Witness ==
    /\ Responded
    /\ FreshBranch
    /\ settled = <<"news", "fundamental", "technical">>
    /\ env.technical.kind = "rateLimit"
    /\ env.fundamental.kind = "rateLimit"
    /\ env.news.kind = "articles"
    /\ response.status = 200
    /\ response.body.technical = DemoTechnical
    /\ Len(response.body.news.articles) = 2

StartsWith(s, prefix) ==
    Len(s) >= Len(prefix) /\ SubSeq(s, 1, Len(prefix)) = prefix

\* C16: a follow-up query is answered from exactly one of three templates:
\* the why template listing the context's reasons if the lower-cased query
\* contains "why", otherwise the risk template with the context's risk level
\* and risk factors if it contains "risk", otherwise the default template
\* with the context's message; a query with both words gets the why
\* template and a context without recommendation gets the fixed fallback
\* text of the chosen template, not an error.
C16_TemplateByCategory ==
    (Responded /\ FollowUpBranch /\ request.query.t = "string") =>
        LET q == toLowerCase(request.query.s)
            why == Includes(q, "why")
            risk == Includes(q, "risk")
            symbol == toUpperCase(request.symbol.s)
            rec == Get(request.context, "recommendation")
            none == rec = Undefined
            s == response.body.summary
            isWhy == StartsWith(s, "Here's why I recommend ")
            isRisk == StartsWith(s, "Risk assessment for ")
            isDefault == StartsWith(s, "Based on my analysis of ")
        IN /\ response.status = 200
           /\ isWhy <=> why
           /\ isRisk <=> (~why /\ risk)
           /\ isDefault <=> (~why /\ ~risk)
           /\ isWhy =>
                IF none
                THEN s = "Here's why I recommend this position for " \o symbol
                           \o ":\n\nBased on current market conditions and technical indicators."
                ELSE /\ Includes(s, rec.action)
                     /\ \A i \in 1..Len(rec.reasons) : Includes(s, rec.reasons[i])
           /\ isRisk =>
                IF none
                THEN s = "Risk assessment for " \o symbol
                           \o ":\n\nRisk Level: Medium\n\nNo major risk factors identified at this time."
                ELSE /\ Includes(s, "Risk Level: " \o rec.riskLevel)
                     /\ \A i \in 1..Len(rec.riskFactors) :
                            Includes(s, rec.riskFactors[i])
           /\ isDefault =>
                s = "Based on my analysis of " \o symbol \o ", "
                      \o (IF none THEN "the current position looks stable."
                          ELSE rec.message)

\* a query with both words, answered from the why template
C16_Witness ==
    /\ Responded
    /\ FollowUpBranch
    /\ request.query = Str("why take the risk")
    /\ request.context = PriorAnalysis
    /\ StartsWith(response.body.summary, "Here's why I recommend Hold for AAPL:")
    /\ Includes(response.body.summary, "* High P/E ratio (expensive)")

(***************************************************************************)
(* Claims about follow-ups in a conversation, checked under SpecClient.    *)
(***************************************************************************)
AnalysisFields ==
    {"symbol", "summary", "isFollowUp", "technical", "fundamental", "sentiment",
     "news", "recommendation"}

C15_TemplatedOnlyForFollowUpQuery ==
    (Responded /\ clientPc = "waiting" /\ response.status = 200
       /\ settled = <<>>) =>
        /\ request.context # Null
        /\ MatchesFollowUp(request.query.s)

(***************************************************************************)
(* The time-series getTechnicalAnalysis (TIME_SERIES_DAILY).  A provider   *)
(* answer is [kind, series]; the series maps a date to its bar.  A date is *)
(* the day number of its ISO string, whose string order is calendar order. *)
(***************************************************************************)
MaxPoints == 21

\* Object.keys(timeSeries).sort(): the dates, earliest first
SortedAscending(keys) ==
    [i \in 1..Cardinality(keys) |->
        CHOOSE d \in keys : Cardinality({e \in keys : e < d}) = i - 1]

\* Object.keys(timeSeries).sort().reverse(): the dates, latest first
SortedReversed(keys) ==
    [i \in 1..Cardinality(keys) |->
        CHOOSE d \in keys : Cardinality({e \in keys : e > d}) = i - 1]

\* Number.prototype.toFixed(2) of the double computed for num / den, den > 0,
\* in hundredths: the nearest hundredth of the magnitude; when num / den lies
\* exactly between two hundredths the error of the double decides
toFixed2(num, den) ==
    LET magnitude == IF num < 0 THEN -num ELSE num
        up == (200 * magnitude + den) \div (2 * den)
        half == (200 * magnitude + den) % (2 * den) = 0
        sign == IF num < 0 THEN -1 ELSE 1
    IN IF half THEN {sign * up, sign * (up - 1)} ELSE {sign * up}

\* prices.reduce((sum, price) => sum + price, 0)
RECURSIVE SumPrices(_)
SumPrices(prices) ==
    IF prices = <<>> THEN 0
    ELSE prices[1] + SumPrices(SubSeq(prices, 2, Len(prices)))

\* dates.map(date => parseFloat(timeSeries[date]['4. close'])) on every date
AllCloses(timeSeries, dates) ==
    [i \in 1..Len(dates) |-> parseFloat(timeSeries[dates[i]].close).v]

\* dates.slice(0, 20).map(date => parseFloat(timeSeries[date]['4. close']))
RecentCloses(timeSeries, dates) ==
    [i \in 1..Len(Slice(dates, 20)) |->
        parseFloat(timeSeries[Slice(dates, 20)[i]].close).v]

\* the object of the catch block and of the missing credential:
\* price 'N/A', change 'N/A', indicators {} and no changePercent
DailySentinel ==
    [price |-> NA, change |-> NA, changePercent |-> Undefined,
     indicators |-> [sma20 |-> Undefined]]

\* from const latest to the return of the try block
DailyFigures(timeSeries, dates, latestDate, previousDate) ==
    LET currentPrice == parseFloat(timeSeries[latestDate].close).v
        previousPrice == parseFloat(timeSeries[previousDate].close).v
        change == currentPrice - previousPrice
        prices == RecentCloses(timeSeries, dates)
    IN {[price |-> NumStr(currentPrice),
         change |-> NumStr(change),
         changePercent |-> NumStr(changePercent),
         indicators |-> [sma20 |-> NumStr(sma20)]] :
            changePercent \in toFixed2(100 * change, previousPrice),
            sma20 \in toFixed2(SumPrices(prices), 100 * Len(prices))}

\* a lone bar taken as its own predecessor
getTechnicalAnalysisDailyLoneClose(answer) ==
    IF answer.kind # "series" THEN {DailySentinel}
    ELSE LET dates == SortedReversed(DOMAIN answer.series)
         IN IF Len(dates) = 0 THEN {DailySentinel}
            ELSE IF Len(dates) = 1
            THEN DailyFigures(answer.series, dates, dates[1], dates[1])
            ELSE DailyFigures(answer.series, dates, dates[1], dates[2])

\* getTechnicalAnalysis over the daily series: the values it can resolve to.
\* Without a credential it returns the sentinel; a rejected request, an
\* 'Error Message' and a missing 'Time Series (Daily)' throw; with no bar
\* latest is undefined and with one bar previous is undefined, so reading
\* '4. close' throws a TypeError; the catch block returns the sentinel.
getTechnicalAnalysisDaily(answer) ==
    IF answer.kind # "series" THEN {DailySentinel}
    ELSE LET dates == SortedReversed(DOMAIN answer.series)
         IN IF Len(dates) < 2 THEN {DailySentinel}
            ELSE DailyFigures(answer.series, dates, dates[1], dates[2])

\* analyzeAsset with the daily fetcher: the signal is handed to
\* generateRecommendation; the other two providers are not configured
AnalyzeDaily ==
    /\ apiPc = "daily"
    /\ technical' \in getTechnicalAnalysisDaily(env.technical)
    /\ apiPc' = "scoring"
    /\ EnterRecommendation
    /\ UNCHANGED <<conv, fundamental, sentiment, lastAnalysis, env, newsData,
                   request, fetches, settled, response, fetchCount, message,
                   lastSymbol, clientPc>>

(***************************************************************************)
(* Daily series: up to MaxPoints bars at a base close, the latest and the  *)
(* previous close drawn from a grid, and at most one older bar at a spike. *)
(***************************************************************************)
BaseClose == [close |-> NumStr(10000)]

SpikeClose == [close |-> NumStr(12100)]

LatestCloses == {NumStr(9900), NumStr(10000), NumStr(10250)}

PreviousCloses == {NumStr(9900), NumStr(10000), NumStr(8000)}

DailySeries ==
    {[d \in 1..n |->
        IF d = n THEN [close |-> l]
        ELSE IF d = n - 1 THEN [close |-> p]
        ELSE IF d = k THEN SpikeClose
        ELSE BaseClose] :
     n \in 0..MaxPoints, l \in LatestCloses, p \in PreviousCloses,
     k \in 0..MaxPoints}

DailyAnswers ==
    {[kind |-> k, series |-> <<>>] :
        k \in {"noKey", "network", "errorMessage", "noSeries"}}
        \cup {[kind |-> "series", series |-> s] : s \in DailySeries}

InitSeries ==
    /\ technical = Null
    /\ fundamental = FundamentalSentinel
    /\ sentiment = SentimentSentinel
    /\ score = 0
    /\ reasons = <<>>
    /\ riskFactors = <<>>
    /\ recommendation = "undefined"
    /\ action = "undefined"
    /\ confidence = "undefined"
    /\ riskLevel = "undefined"
    /\ result = Null
    /\ pc = "idle"
    /\ lastAnalysis = Null
    /\ \E answer \in DailyAnswers : env = [NoProviders EXCEPT !.technical = answer]
    /\ newsData = NoNews
    /\ request = Null
    /\ apiPc = "daily"
    /\ fetches = NoFetches
    /\ settled = <<>>
    /\ response = Null
    /\ fetchCount = 0
    /\ message = ""
    /\ lastSymbol = Null
    /\ clientPc = "idle"
    /\ ConvIdle

NextSeries ==
    \/ AnalyzeDaily
    \/ Engine

SpecSeries == InitSeries /\ [][NextSeries]_vars

(***************************************************************************)
(* Claims about the daily series.                                          *)
(***************************************************************************)
\* the daily fetcher has answered from a series of bars
DailyDone == apiPc = "scoring" /\ env.technical.kind = "series"

Bars == env.technical.series

CloseOn(d) == Bars[d].close.v

\* the k most recent dates of the series, by calendar order
MostRecent(k) ==
    {d \in DOMAIN Bars : Cardinality({e \in DOMAIN Bars : e > d}) < k}

RECURSIVE TotalClose(_)
TotalClose(S) ==
    IF S = {} THEN 0
    ELSE LET d == CHOOSE e \in S : TRUE IN CloseOn(d) + TotalClose(S \ {d})

\* h is a nearest whole number to num / den, for den > 0
Nearest(h, num, den) ==
    LET diff == h * den - num
    IN 2 * (IF diff < 0 THEN -diff ELSE diff) <= den

\* C21: for every daily series with at least 2 points, price is the close of
\* the most recent date, change is that close minus the close of the second
\* most recent date, and changePercent is 100 * change / previous close,
\* each to two decimals.
C21_ChangeFromTwoMostRecent ==
    (DailyDone /\ Cardinality(DOMAIN Bars) >= 2) =>
        LET latest == CHOOSE d \in MostRecent(1) : TRUE
            previous == CHOOSE d \in MostRecent(2) \ {latest} : TRUE
            change == CloseOn(latest) - CloseOn(previous)
        IN /\ technical.price = NumStr(CloseOn(latest))
           /\ technical.change = NumStr(change)
           /\ technical.changePercent.t = "numstr"
           /\ Nearest(technical.changePercent.v, 10000 * change,
                      CloseOn(previous))

\* a series of at least three bars with an older spike, closing at 102.50
\* after 99.00: change 3.50, 3.54 percent
C21_Witness ==
    /\ DailyDone
    /\ Cardinality(DOMAIN Bars) >= 3
    /\ Bars[1] = SpikeClose
    /\ technical.change = NumStr(350)
    /\ technical.changePercent = NumStr(354)

\* the SMA20 of a finished call is the mean, to two decimals, of the
\* min(20, n) most recent closes
SmaIsMeanOfRecent ==
    LET recent == MostRecent(20)
        n == Cardinality(DOMAIN Bars)
    IN /\ Cardinality(recent) = (IF n < 20 THEN n ELSE 20)
       /\ technical.indicators.sma20.t = "numstr"
       /\ Nearest(technical.indicators.sma20.v, TotalClose(recent),
                  Cardinality(recent))

\* C22 as stated: for every daily series with n >= 1 closes the SMA20 is the
\* arithmetic mean of the min(20, n) most recent closes.
C22_SmaFromOneClose ==
    (DailyDone /\ Cardinality(DOMAIN Bars) >= 1) => SmaIsMeanOfRecent

\* C22: for every daily series with n >= 2 closes the SMA20 is the
\* arithmetic mean, to two decimals, of the min(20, n) most recent closes;
\* fewer than 20 closes only reduce the number of terms.
C22_SmaFromTwoCloses ==
    (DailyDone /\ Cardinality(DOMAIN Bars) >= 2) => SmaIsMeanOfRecent

\* more than 20 bars, the oldest at the spike: it is outside the window
C22_Witness ==
    /\ DailyDone
    /\ Cardinality(DOMAIN Bars) > 20
    /\ Bars[1] = SpikeClose
    /\ Bars[Cardinality(DOMAIN Bars)].close = NumStr(10000)
    /\ Bars[Cardinality(DOMAIN Bars) - 1].close = NumStr(10000)
    /\ technical.indicators.sma20 = NumStr(10000)

\* C23: a series of 0 or 1 bars, or a payload with an error message, gives
\* the fully-absent signal (price 'N/A', change 'N/A', no indicator) instead
\* of throwing, and generateRecommendation skips both technical rules.
C23_ShortSeriesGivesSentinel ==
    (/\ apiPc = "scoring"
     /\ \/ env.technical.kind = "errorMessage"
        \/ env.technical.kind = "series" /\ Cardinality(DOMAIN Bars) < 2) =>
        /\ technical.price = NA
        /\ technical.change = NA
        /\ technical.indicators.sma20 = Undefined
        /\ TechnicalMomentum(technical) = Nothing
        /\ TechnicalTrend(technical) = Nothing
        /\ pc # "threw"
        /\ pc \notin {"momentum", "trend"} =>
              score = 0 /\ reasons = <<>> /\ riskFactors = <<>>

\* a series of one bar, scored to the end
C23_Witness ==
    /\ DailyDone
    /\ Cardinality(DOMAIN Bars) = 1
    /\ pc = "done"
    /\ result.recommendation = "HOLD"

(***************************************************************************)
(* The chat client with overlapping sendMessage calls.  Nothing in app.js  *)
(* blocks a second send while a response is awaited; each call keeps its   *)
(* own message and symbol and updates the shared conversationContext when  *)
(* its response arrives.  The function is stateless: its answer depends on *)
(* the request and the provider answers only.                              *)
(***************************************************************************)
MaxMessages == 2

\* handler and analyzeAsset for a request the client sends: the body of the
\* 200 response
ResponseBody(req) ==
    IF req.isFollowUp /\ req.context # Null
    THEN FollowUpResult(toUpperCase(req.symbol.s), req.query.s, req.context)
    ELSE FreshResult(toUpperCase(req.symbol.s), req.isFollowUp, env)

\* sendMessage up to the await of fetch (app.js 24-59); without a symbol it
\* returns after displayError
Send(input) ==
    /\ Len(calls) < MaxMessages
    /\ trim(input) # ""
    /\ message' = input
    /\ LET msg == trim(input)
           symbol == extractSymbol(msg, lastSymbol)
       IN calls' = Append(calls,
              [query |-> Str(msg),
               symbol |-> symbol,
               context |-> lastAnalysis,
               isFollowUp |-> (symbol # Null /\ lastSymbol = symbol
                                 /\ lastAnalysis # Null),
               overlaps |-> \E i \in DOMAIN calls : calls[i].state = "pending",
               state |-> IF symbol = Null THEN "noSymbol" ELSE "pending"])
    /\ UNCHANGED <<inputs, pc, locals, result, lastAnalysis, env, newsData,
                   request, apiPc, fetches, settled, response, fetchCount,
                   lastSymbol, clientPc, conversationHistory, handlers,
                   emitted>>

\* the arrival of a response that records the analysis but not its symbol
HandleResponseKeepingSymbol(i) ==
    /\ calls[i].state = "pending"
    /\ LET data == ResponseBody(calls[i])
       IN /\ lastAnalysis' = data
          /\ conversationHistory' =
                 Append(conversationHistory,
                        [query |-> calls[i].query, response |-> data])
    /\ calls' = [calls EXCEPT ![i].state = "answered"]
    /\ message' = ""
    /\ UNCHANGED <<inputs, pc, locals, result, env, newsData, request, apiPc,
                   fetches, settled, response, fetchCount, clientPc, handlers,
                   emitted, lastSymbol>>

\* the response of call i arrives with an OK status (app.js 61-83, 90)
HandleResponse(i) ==
    /\ calls[i].state = "pending"
    /\ LET data == ResponseBody(calls[i])
       IN /\ lastSymbol' = calls[i].symbol
          /\ lastAnalysis' = data
          /\ conversationHistory' =
                 Append(conversationHistory,
                        [query |-> calls[i].query, response |-> data])
    /\ calls' = [calls EXCEPT ![i].state = "answered"]
    /\ message' = ""
    /\ UNCHANGED <<inputs, pc, locals, result, env, newsData, request, apiPc,
                   fetches, settled, response, fetchCount, clientPc, handlers,
                   emitted>>

\* fetch rejects, the status is not OK or the body is not JSON: the catch
\* block (app.js 84-87, 90)
HandleFailure(i) ==
    /\ calls[i].state = "pending"
    /\ calls' = [calls EXCEPT ![i].state = "failed"]
    /\ message' = ""
    /\ UNCHANGED <<inputs, pc, locals, result, lastAnalysis, env, newsData,
                   request, apiPc, fetches, settled, response, fetchCount,
                   lastSymbol, clientPc, conversationHistory, handlers,
                   emitted>>

\* the four examples of the README and a greeting
ConversationMessages ==
    {"What's the outlook for AAPL?",
     "Analyze TSLA sentiment",
     "Give me technical analysis for MSFT",
     "How is GOOGL performing?",
     "hello there"}

ConversationEnvironments ==
    {NoProviders,
     [technical |-> [kind |-> "rateLimit"],
      fundamental |-> [kind |-> "overview",
                       data |-> [PERatio |-> NumStr(4001), DividendYield |-> None]],
      news |-> [kind |-> "articles", data |-> NewsWire]]}

InitConversation ==
    /\ technical = TechnicalSentinel
    /\ fundamental = FundamentalSentinel
    /\ sentiment = SentimentSentinel
    /\ score = 0
    /\ reasons = <<>>
    /\ riskFactors = <<>>
    /\ recommendation = "undefined"
    /\ action = "undefined"
    /\ confidence = "undefined"
    /\ riskLevel = "undefined"
    /\ result = Null
    /\ pc = "idle"
    /\ lastAnalysis = Null
    /\ env \in ConversationEnvironments
    /\ newsData = NoNews
    /\ request = Null
    /\ apiPc = "idle"
    /\ fetches = NoFetches
    /\ settled = <<>>
    /\ response = Null
    /\ fetchCount = 0
    /\ message = ""
    /\ lastSymbol = Null
    /\ clientPc = "idle"
    /\ ConvIdle

NextConversation ==
    \/ \E input \in ConversationMessages : Send(input)
    \/ \E i \in DOMAIN calls : HandleResponse(i)
    \/ \E i \in DOMAIN calls : HandleFailure(i)

SpecConversation == InitConversation /\ [][NextConversation]_vars

(***************************************************************************)
(* Claims about the conversation of the chat client.                       *)
(***************************************************************************)
\* the Usage examples of the README and the symbol each one names
ReadmeExamples ==
    <<<<"What's the outlook for AAPL?", "AAPL">>,
      <<"Analyze TSLA sentiment", "TSLA">>,
      <<"Give me technical analysis for MSFT", "MSFT">>,
      <<"How is GOOGL performing?", "GOOGL">>>>

\* C24: each example of the README, typed at any point of a conversation,
\* makes extractSymbol return the symbol the example names, whatever symbol
\* was analysed before.
C24_ReadmeExamplesGiveNamedSymbol ==
    \A i \in DOMAIN calls : \A e \in DOMAIN ReadmeExamples :
        calls[i].query = Str(ReadmeExamples[e][1]) =>
            calls[i].symbol = Str(ReadmeExamples[e][2])

\* the context is empty, or holds a symbol and the analysis of that symbol,
\* and the history has one entry for each answered request
ContextConsistent ==
    /\ \/ lastSymbol = Null /\ lastAnalysis = Null
       \/ /\ lastSymbol # Null
          /\ lastAnalysis # Null
          /\ lastAnalysis.symbol = lastSymbol.s
    /\ Len(conversationHistory)
         = Cardinality({i \in DOMAIN calls : calls[i].state = "answered"})

\* a step that handles a failed request or sends a message without a symbol
FailedOrNoSymbolStep ==
    \/ \E i \in DOMAIN calls :
          calls[i].state = "pending" /\ calls'[i].state = "failed"
    \/ /\ Len(calls') = Len(calls) + 1
       /\ calls'[Len(calls')].state = "noSymbol"

FailureKeepsContext ==
    FailedOrNoSymbolStep =>
        UNCHANGED <<lastSymbol, lastAnalysis, conversationHistory>>

\* C28: in every reachable state lastSymbol and lastAnalysis are both null or
\* both set with lastAnalysis.symbol = lastSymbol, and conversationHistory
\* has one entry per answered request; a failed request and a message
\* without a symbol leave lastSymbol, lastAnalysis and the history unchanged.
C28_ContextAndHistoryConsistent ==
    []ContextConsistent /\ [][FailureKeepsContext]_vars

\* one request answered, a later one failed: the context is the first one's
C28_Witness ==
    /\ Len(calls) = 2
    /\ calls[1].state = "answered"
    /\ calls[2].state = "failed"
    /\ lastSymbol = calls[1].symbol
    /\ lastAnalysis.symbol = "TSLA"
    /\ Len(conversationHistory) = 1

\* C29: when the second message is sent before the response to the first
\* arrives, then once both responses are handled lastSymbol, lastAnalysis and
\* the last history entry are those of the second message.
C29_LastSentMessageWins ==
    (/\ Len(calls) = 2
     /\ calls[2].overlaps
     /\ calls[1].state = "answered"
     /\ calls[2].state = "answered") =>
        /\ lastSymbol = calls[2].symbol
        /\ lastAnalysis.symbol = calls[2].symbol.s
        /\ conversationHistory[Len(conversationHistory)].query = calls[2].query

(***************************************************************************)
(* Claims about the quote fetcher and about risk and class.                *)
(***************************************************************************)
\* C25: with the credential configured, a success status, no rate-limit
\* notice and a non-empty 'Global Quote', getTechnicalAnalysis returns a
\* TechnicalSignal derived from the provider data, not the sentinel.
C25_QuoteGivesSignal ==
    (fetches["technical"].state = "settled" /\ env.technical.kind = "quote") =>
        fetches["technical"].value.price # NA

\* C26: no input gives a BUY-class recommendation with risk level High: with
\* three or more risk factors the total score is at most 0, so the message
\* 'Higher risk - suitable for aggressive investors only.' is never produced.
C26_NoBuyAtHighRisk ==
    pc = "done" =>
        /\ ~(result.recommendation = "BUY" /\ result.riskLevel = "High")
        /\ Len(riskFactors) >= 3 => score <= 0
        /\ result.message \notin
              {c \o " confidence buy recommendation. "
                 \o "Higher risk - suitable for aggressive investors only." :
               c \in {"High", "Medium"}}

\* three risk factors next to every bonus the other rules can give
C26_Witness ==
    /\ pc = "done"
    /\ Len(riskFactors) = 3
    /\ score = 0
    /\ result.riskLevel = "High"
    /\ result.recommendation = "HOLD"

(***************************************************************************)
(* The news fetcher followed by the engine: a provider page of up to       *)
(* MaxPage relevant articles is cut to five by getNewsAnalysis, labelled   *)
(* and scored by getSentimentFromNews and handed to generateRecommendation *)
(* with no technical and no fundamental signal.                            *)
(***************************************************************************)
MaxPage == 6

\* analyzeAsset from the news fetcher to the call of generateRecommendation
AnalyzeNews ==
    /\ apiPc = "wire"
    /\ LET news == getNewsAnalysis("AAPL", env.news)
       IN /\ newsData' = news
          /\ sentiment' = getSentimentFromNews(news)
    /\ apiPc' = "scoring"
    /\ EnterRecommendation
    /\ UNCHANGED <<conv, technical, fundamental, lastAnalysis, env, request,
                   fetches, settled, response, fetchCount, message, lastSymbol,
                   clientPc>>

\* headlines scoring +2, -1 and 0, each about the symbol
WireArticles ==
    {[title |-> Str(s), description |-> Str("AAPL results")] :
        s \in {"Apple profit growth", "Apple loss", "Apple event"}}

\* every page of up to MaxPage articles
WirePages == ListsOf(WireArticles, MaxPage)

InitWire ==
    /\ technical = TechnicalSentinel
    /\ fundamental = FundamentalSentinel
    /\ sentiment = SentimentSentinel
    /\ score = 0
    /\ reasons = <<>>
    /\ riskFactors = <<>>
    /\ recommendation = "undefined"
    /\ action = "undefined"
    /\ confidence = "undefined"
    /\ riskLevel = "undefined"
    /\ result = Null
    /\ pc = "idle"
    /\ lastAnalysis = Null
    /\ \E page \in WirePages :
          env = [NoProviders EXCEPT !.news = [kind |-> "articles", data |-> page]]
    /\ newsData = NoNews
    /\ request = Null
    /\ apiPc = "wire"
    /\ fetches = NoFetches
    /\ settled = <<>>
    /\ response = Null
    /\ fetchCount = 0
    /\ message = ""
    /\ lastSymbol = Null
    /\ clientPc = "idle"
    /\ ConvIdle

NextWire ==
    \/ AnalyzeNews
    \/ Engine

SpecWire == InitWire /\ [][NextWire]_vars

\* C27: for the lists of at most 5 articles getNewsAnalysis produces, the
\* label is 'Very Positive sentiment in recent news' exactly when the
\* sentiment rule adds +1 to the score, and 'Very Negative sentiment in
\* recent news' implies that the rule adds at most 0, and -1 whenever the
\* mean is below -0.5.
C27_LabelAgreesWithContribution ==
    (apiPc = "scoring" /\ pc = "done") =>
        LET n == Len(newsData.articles)
            total == TotalScore(newsData.articles)
        IN /\ n <= 5
           /\ (sentiment.message = "Very Positive sentiment in recent news")
                 <=> (score = 1)
           /\ (sentiment.message = "Very Negative sentiment in recent news") =>
                 /\ score <= 0
                 /\ 2 * total < -n => score = -1

\* a page of six articles cut to five with mean 0.6: +2, +2, -1, 0, 0
C27_Witness ==
    /\ apiPc = "scoring"
    /\ pc = "done"
    /\ Len(env.news.data) = 6
    /\ Len(newsData.articles) = 5
    /\ sentiment.score = 60
    /\ sentiment.message = "Very Positive sentiment in recent news"
    /\ score = 1

(***************************************************************************)
(* The socket server (part_004): one handler per 'analyze_asset' event,    *)
(* any number of them in flight on a socket.  The payload is whatever the  *)
(* sender put in the event.  FinancialAnalyzer.analyzeAsset starts four    *)
(* fetchers; each catches its own failures, so Promise.all never rejects.  *)
(***************************************************************************)
MaxRequests == 2

SocketFetchers == {"sentiment", "news", "technical", "fundamental"}

\* socket.emit(event, value) by the handler of request r
Emit(log, r, event, value) ==
    Append(log, [request |-> r, event |-> event, value |-> value])

\* the event arrives: the destructuring of data, which throws for a payload
\* that is undefined or null before the try block is entered; then
\* bot_typing(true) and the call of analyzeAsset, whose symbol.toUpperCase()
\* throws for a symbol that is not a string and which otherwise starts the
\* four fetchers and awaits Promise.all
Receive(data) ==
    /\ Len(handlers) < MaxRequests
    /\ LET r == Len(handlers) + 1
       IN IF data.kind = "none"
          THEN /\ handlers' = Append(handlers,
                      [data |-> data, pc |-> "unhandledRejection", pending |-> {}])
               /\ UNCHANGED emitted
          ELSE /\ emitted' = Emit(emitted, r, "bot_typing", "true")
               /\ handlers' = Append(handlers,
                      IF data.symbol.t = "string"
                      THEN [data |-> data, pc |-> "awaiting",
                            pending |-> SocketFetchers]
                      ELSE [data |-> data, pc |-> "rejected", pending |-> {}])
    /\ UNCHANGED <<inputs, pc, locals, result, lastAnalysis, env, newsData,
                   request, apiPc, fetches, settled, response, fetchCount,
                   message, lastSymbol, clientPc, conversationHistory, calls>>

\* one fetcher of request r returns: its value or the fallback of its catch
Settle(r, f) ==
    /\ r \in DOMAIN handlers
    /\ handlers[r].pc = "awaiting"
    /\ f \in handlers[r].pending
    /\ handlers' = [handlers EXCEPT ![r].pending = @ \ {f}]
    /\ UNCHANGED <<inputs, pc, locals, result, lastAnalysis, env, newsData,
                   request, apiPc, fetches, settled, response, fetchCount,
                   message, lastSymbol, clientPc, conversationHistory, calls,
                   emitted>>

\* Promise.all resolves, analyzeAsset returns the analysis and the handler
\* emits bot_typing(false) and analysis_result
Resolve(r) ==
    /\ r \in DOMAIN handlers
    /\ handlers[r].pc = "awaiting"
    /\ handlers[r].pending = {}
    /\ emitted' = Emit(Emit(emitted, r, "bot_typing", "false"),
                       r, "analysis_result", "analysis")
    /\ handlers' = [handlers EXCEPT ![r].pc = "done"]
    /\ UNCHANGED <<inputs, pc, locals, result, lastAnalysis, env, newsData,
                   request, apiPc, fetches, settled, response, fetchCount,
                   message, lastSymbol, clientPc, conversationHistory, calls>>

\* the await of a rejected analysis: the catch block of the handler emits
\* bot_typing(false) and error
Catch(r) ==
    /\ r \in DOMAIN handlers
    /\ handlers[r].pc = "rejected"
    /\ emitted' = Emit(Emit(emitted, r, "bot_typing", "false"),
                       r, "error", "message")
    /\ handlers' = [handlers EXCEPT ![r].pc = "done"]
    /\ UNCHANGED <<inputs, pc, locals, result, lastAnalysis, env, newsData,
                   request, apiPc, fetches, settled, response, fetchCount,
                   message, lastSymbol, clientPc, conversationHistory, calls>>

\* payloads: a symbol, an object without a symbol, no payload
Payloads ==
    {[kind |-> "object", symbol |-> Str("aapl")],
     [kind |-> "object", symbol |-> Undefined],
     [kind |-> "none", symbol |-> Undefined]}

InitSocket ==
    /\ technical = TechnicalSentinel
    /\ fundamental = FundamentalSentinel
    /\ sentiment = SentimentSentinel
    /\ score = 0
    /\ reasons = <<>>
    /\ riskFactors = <<>>
    /\ recommendation = "undefined"
    /\ action = "undefined"
    /\ confidence = "undefined"
    /\ riskLevel = "undefined"
    /\ result = Null
    /\ pc = "idle"
    /\ lastAnalysis = Null
    /\ ExtIdle

NextSocket ==
    \/ \E data \in Payloads : Receive(data)
    \/ \E r \in 1..MaxRequests : \E f \in SocketFetchers : Settle(r, f)
    \/ \E r \in 1..MaxRequests : Resolve(r)
    \/ \E r \in 1..MaxRequests : Catch(r)

SpecSocket == InitSocket /\ [][NextSocket]_vars

\* the event loop runs the continuation of every settled promise, and every
\* provider request ends with a response or an error
SpecSocketFair ==
    /\ SpecSocket
    /\ \A r \in 1..MaxRequests :
          /\ WF_vars(\E f \in SocketFetchers : Settle(r, f))
          /\ WF_vars(Resolve(r))
          /\ WF_vars(Catch(r))

(***************************************************************************)
(* Claim about the socket server.                                          *)
(***************************************************************************)
\* what was emitted for request r, in order
EventsOf(r) == SelectSeq(emitted, LAMBDA e : e.request = r)

\* the sequences a request may end with
TerminalSequences ==
    {<<"bot_typing", "bot_typing", last>> : last \in {"analysis_result", "error"}}

\* the events of r so far begin one of the two sequences: bot_typing(true),
\* bot_typing(false), one terminal event
InOrder(r) ==
    LET events == EventsOf(r)
    IN /\ \E t \in TerminalSequences :
             /\ Len(events) <= 3
             /\ \A i \in 1..Len(events) : events[i].event = t[i]
       /\ Len(events) >= 1 => events[1].value = "true"
       /\ Len(events) >= 2 => events[2].value = "false"

\* r has its three events
Terminated(r) == Len(EventsOf(r)) = 3

\* C30: for each 'analyze_asset' event received, the events emitted for it
\* are, in order, bot_typing(true), bot_typing(false) and exactly one of
\* analysis_result and error, and every request eventually gets
\* bot_typing(false) followed by its terminal event.
C30_TypingThenOneTerminalEvent ==
    \A r \in 1..MaxRequests :
        /\ [](r \in DOMAIN handlers => InOrder(r))
        /\ (r \in DOMAIN handlers) ~> Terminated(r)

====
